---- MODULE Spec2Model ----
(***************************************************************************)
(* A model of the resumable OCR dispatch pipeline of this repository:      *)
(* the bounded PageBuffer of ocr.py, and the archive pipelines of main.py, *)
(* parallel.py, batch.py and ocr.py with their durable ledger (manifest)   *)
(* and result cache, the page-by-page pipeline of tqdm.py with the retry    *)
(* loop of its ocr_single_image, and the checked cache of dev-null/ocr.py. *)
(* One variable, variant, says which program a                             *)
(* behaviour runs; every specification fixes it in its initial state.      *)
(***************************************************************************)
EXTENDS Integers, Sequences, FiniteSets, TLC

VARIABLES
    variant,    \* which program of the repository this behaviour runs
    \* ---- PageBuffer (ocr.py) and the threads that use it
    buffer,     \* PageBuffer.buffer: the deque of items, oldest first
    pages,      \* PageBuffer.pages: the tracked page count
    pc,         \* per thread: "idle", "ready" (wants the condition lock), "wait" (in cv.wait),
                \* "locked" (a consumer of ocr.py inside with write_lock)
    cur,        \* per thread: the item being put, or the item last returned by get
    nextId,     \* number of items created so far
    putLog,     \* history: the items in the order their put enqueued them
    getLog,     \* history: the items in the order get returned them
    \* ---- the input and the durable state of the archive pipelines
    zips,           \* the archives found under ZIP_ROOT, in processing order
    manifestFile,   \* per year: the manifest.json file (the durable ledger)
    cacheFiles,     \* the cache files, by <<year, document name>>
    persisted,      \* history: <<year, archive, name>> ever read back from a manifest.json
    \* ---- the state of one process of a pipeline
    run,            \* the number of the current process (1 = the first run)
    ppc,            \* the main thread's position
    err,            \* the exception propagating out of the run, or "none"
    zi,             \* index in zips of the archive being processed
    mi,             \* index of the next member of that archive
    GLOBAL_FINISHED_FILES,
    manifest,       \* the ledger in memory (load_manifest's result)
    pdf_buffers,    \* per document name: total and the slot array texts
    page_tasks,     \* the page tasks and the state of their futures
    ollama_pool,    \* cycle(OLLAMA_URLS): the index of the endpoint next() returns next
    poolLog,        \* history: what next(ollama_pool) returned in this process of main.py or parallel.py
    \* ---- history of the current process
    ocrCalls,       \* <<z, m, i>>: a backend request was sent for page i of member m of archive z
    known,          \* <<z, m>>: members that were in an index, the ledger or the cache when discovered
    rasterized,     \* <<z, m>>: members whose pages were rasterized
    arrivals,       \* the slots <<name, i>> written in the current process_zip, in order
    cacheWrites,    \* per document name: cache writes in the current process_zip
    written,        \* cache keys written by the current process
    startLedger,    \* <<year, archive, name>> in the durable ledger when the process started
    startCache,     \* the cache keys when the process started, and whether the entry was complete
    prevEnd,        \* how the previous process ended: "none", "done", "dead", "crashed"
    backend,        \* per request key: the outcome of the last request
    backendChanged, \* a request of the current process got another outcome than before
    \* ---- process_zip of ocr.py
    results,        \* the results dict: per document name, the texts so far or the final record
    to_process,     \* the members accepted for processing, in order
    prodAt,         \* pdf_producer's position: the document and the batch it is at
    total_target,   \* len(results) + len(to_process) when the threads were started
    summary,        \* the monthly summary file: the names it lists, or "none"
    write_lock,     \* write_lock of ocr.py: TRUE while a thread holds it
    \* ---- one call of ocr_single_image of tqdm.py
    attempt,        \* the loop variable: the number of requests that failed and are retried
    outcomes,       \* history: the outcome of every request the call sent, in order
    ret             \* the call's return value, once it has returned

bufVars == <<buffer, pages, pc, cur, nextId, putLog, getLog>>
durVars == <<manifestFile, cacheFiles, persisted>>
procVarsButTasks == <<run, ppc, err, zi, mi, GLOBAL_FINISHED_FILES, manifest, pdf_buffers>>
procVars == <<procVarsButTasks, page_tasks>>
poolVars == <<ollama_pool, poolLog>>
histVars == <<ocrCalls, known, rasterized, arrivals, cacheWrites, written,
              startLedger, startCache, prevEnd, backend, backendChanged>>
ocrVars == <<results, to_process, prodAt, total_target, summary, write_lock>>
pipeVars == <<zips, durVars, procVars, poolVars, histVars, ocrVars>>
retryVars == <<attempt, outcomes, ret>>
vars == <<variant, bufVars, pipeVars, retryVars>>

\* ------------------------------------------------------------------ bounds
\* BUFFER_MAX_PAGES (256 in ocr.py, 10 in dev-null/ocr.py), scaled down
max_pages == 2
\* BATCH_SIZE (16 in ocr.py), scaled down: the most pages one item carries
BATCH_SIZE == 2
\* the number of items the producers create in one behaviour
MaxItems == 4
\* MAX_PAGES (250 in main.py, 500 in parallel.py, 100 in batch.py), scaled down
MAX_PAGES == 2
\* MAX_WORKERS = len(OLLAMA_URLS) (4 in main.py, 2 in parallel.py), scaled down
MAX_WORKERS == 2
\* MAX_PAGES_PER_DOC (100 in ocr.py), scaled down
MAX_PAGES_PER_DOC == 3
\* the number of processes (runs of the pipeline) in one behaviour
MaxRuns == 2

Producers == {"p1", "p2"}
Consumers == {"c1", "c2"}
Threads == Producers \cup Consumers
\* an item: {"pdf", "batch_index", "images", "total_pages"}; images is the
\* number of page images it carries, id numbers the items, m is the member
\* of the archive the document is
Item(id, pdf, m, batch_index, images, total_pages) ==
    [id |-> id, pdf |-> pdf, m |-> m, batch_index |-> batch_index, images |-> images,
     total_pages |-> total_pages]
NoItem == Item(0, "", 0, 0, 0, 0)

\* ------------------------------------------------------------ PageBuffer
\* PageBuffer.__init__
BufferInit ==
    /\ buffer = <<>>
    /\ pages = 0
    /\ pc = [t \in Threads |-> "idle"]
    /\ cur = [t \in Threads |-> NoItem]
    /\ nextId = 0
    /\ putLog = <<>>
    /\ getLog = <<>>

\* cv.notify_all(): every thread in cv.wait() goes back to contend for the lock
NotifyNone(p) == p
NotifyAll(p) == [t \in Threads |-> IF p[t] = "wait" THEN "ready" ELSE p[t]]

\* the loop condition of put: while self.pages >= self.max_pages: self.cv.wait()
PutBlockedWhenOver == pages > max_pages
PutBlocked == pages >= max_pages

\* the loop condition of get: while not self.buffer: self.cv.wait()
GetBlocked == buffer = <<>>

\* self.buffer.append(item)
Enqueue(q, item) == Append(q, item)

\* item = self.buffer.popleft(): the item returned and the deque left
PopRight(q) == [item |-> q[Len(q)], rest |-> SubSeq(q, 1, Len(q) - 1)]
PopKeeps(q) == [item |-> Head(q), rest |-> q]
PopLeft(q) == [item |-> Head(q), rest |-> Tail(q)]

\* The histories putLog and getLog are kept where the callers create a
\* bounded number of items; where they call for ever ("live") they are not.
Log(l, item) == IF variant = "live" THEN l ELSE Append(l, item)

\* One pass of put(item) under the condition lock: wait, or enqueue, count
\* the item's pages, notify_all and return.
PutStep(t) ==
    /\ pc[t] = "ready"
    /\ IF PutBlocked
       THEN /\ pc' = [pc EXCEPT ![t] = "wait"]
            /\ UNCHANGED <<buffer, pages, cur, putLog>>
       ELSE /\ buffer' = Enqueue(buffer, cur[t])
            /\ pages' = pages + cur[t].images
            /\ putLog' = Log(putLog, cur[t])
            /\ pc' = [NotifyAll(pc) EXCEPT ![t] = "idle"]
            /\ cur' = [cur EXCEPT ![t] = NoItem]
    /\ UNCHANGED <<nextId, getLog>>

\* One pass of get() under the condition lock: wait, or dequeue the oldest
\* item, discount its pages, notify_all and return it.
GetStep(t) ==
    /\ pc[t] = "ready"
    /\ IF GetBlocked
       THEN /\ pc' = [pc EXCEPT ![t] = "wait"]
            /\ UNCHANGED <<buffer, pages, cur, getLog>>
       ELSE LET r == PopLeft(buffer) IN
            /\ buffer' = r.rest
            /\ pages' = pages - r.item.images
            /\ getLog' = Log(getLog, r.item)
            /\ pc' = [NotifyAll(pc) EXCEPT ![t] = "idle"]
            /\ cur' = [cur EXCEPT ![t] = r.item]
    /\ UNCHANGED <<nextId, putLog>>

\* ------------------------------------------------------------------ texts
\* A text is a sequence of characters; a character is a triple.
\* NL is the newline character, Tok(z, m, i) stands for the text the backend
\* extracts from page i (from 0) of member m of archive z.
NL == <<0, 0, 0>>
Tok(z, m, i) == <<z, m, i>>

\* text = r.json().get("response", "").strip(): "ok" is a non-empty answer,
\* "empty" an answer without text
PageText(z, m, i, res) == IF res = "ok" THEN <<Tok(z, m, i)>> ELSE <<>>

\* sep.join(texts)
RECURSIVE Join(_, _)
Join(sep, texts) ==
    IF texts = <<>> THEN <<>>
    ELSE IF Len(texts) = 1 THEN texts[1]
    ELSE texts[1] \o sep \o Join(sep, Tail(texts))

\* str.strip(): leading and trailing whitespace removed
RECURSIVE LStrip(_)
LStrip(s) == IF s # <<>> /\ Head(s) = NL THEN LStrip(Tail(s)) ELSE s
RECURSIVE RStrip(_)
RStrip(s) == IF s # <<>> /\ s[Len(s)] = NL THEN RStrip(SubSeq(s, 1, Len(s) - 1)) ELSE s
Strip(s) == RStrip(LStrip(s))

InSeq(x, q) == \E i \in 1..Len(q) : q[i] = x
Occurrences(q, x) == Cardinality({i \in 1..Len(q) : q[i] = x})
EmptyFn == [k \in {} |-> 0]

\* ----------------------------------------------------------------- input
\* An archive: its file name (the ledger's key), the year of its
\* (service, year) group, and its .pdf members in infolist() order.  A member
\* has the base name of its path, its page count, and whether pdfinfo can
\* read it; a corrupt member is one whose extraction raises
\* zipfile.BadZipFile.
Mem(n, p) == [name |-> n, pages |-> p, readable |-> TRUE, corrupt |-> FALSE]
BadMem(n) == [name |-> n, pages |-> 1, readable |-> FALSE, corrupt |-> FALSE]
CorruptMem(n) == [name |-> n, pages |-> 1, readable |-> TRUE, corrupt |-> TRUE]
Zip(k, y, ms) == [key |-> k, year |-> y, members |-> ms]

Names == {"a.pdf", "b.pdf"}
Years == {"y1", "y2"}

Scenarios ==
    { <<Zip("z1", "y1", <<Mem("a.pdf", 2), Mem("b.pdf", 1)>>)>>,
      \* two members with the same base name, in different directories
      <<Zip("z1", "y1", <<Mem("a.pdf", 2), Mem("a.pdf", 2)>>)>>,
      <<Zip("z1", "y1", <<Mem("a.pdf", 1), Mem("a.pdf", 2)>>)>>,
      \* a document above the maximum, an unreadable one
      <<Zip("z1", "y1", <<Mem("b.pdf", MAX_PAGES + 1), Mem("a.pdf", MAX_PAGES)>>)>>,
      <<Zip("z1", "y1", <<BadMem("b.pdf"), Mem("a.pdf", 1)>>)>>,
      \* a corrupt member before a sound one
      <<Zip("z1", "y1", <<CorruptMem("b.pdf"), Mem("a.pdf", 1)>>)>>,
      \* two archives of one year, two archives of different years
      <<Zip("z1", "y1", <<Mem("a.pdf", 1)>>), Zip("z2", "y1", <<Mem("a.pdf", 1), Mem("b.pdf", 1)>>)>>,
      <<Zip("z1", "y1", <<Mem("a.pdf", 1)>>), Zip("z2", "y2", <<Mem("a.pdf", 1)>>)>> }

CurZip == zips[zi]
CurYear == zips[zi].year
Member(z, m) == zips[z].members[m]

\* ------------------------------------------------------- ledger and cache
\* {"schema_version": 1, "generated_at": None, "zips": {}}: the ledger in
\* memory is its "zips" map, archive name -> {count, files}
EmptyManifest == EmptyFn

NoFile == [st |-> "absent", zips |-> EmptyFn]
CorruptFile == [st |-> "corrupt", zips |-> EmptyFn]

\* load_manifest of main.py and parallel.py: the parsed file, or the empty
\* ledger when the file is missing or does not parse
load_manifest(year) ==
    IF manifestFile[year].st = "ok" THEN manifestFile[year].zips ELSE EmptyManifest

\* save_manifest: write_text of the whole ledger
save_manifest_skipped(year, mf) == manifestFile
save_manifest(year, mf) == [manifestFile EXCEPT ![year] = [st |-> "ok", zips |-> mf]]

\* in_manifest of batch.py
in_manifest(mf, zip_name, pdf_name) ==
    zip_name \in DOMAIN mf /\ InSeq(pdf_name, mf[zip_name].files)

\* add_manifest of batch.py, and the same lines of main.py and parallel.py
add_manifest_always(mf, zip_name, pdf_name) ==
    LET z == IF zip_name \in DOMAIN mf THEN mf[zip_name] ELSE [count |-> 0, files |-> <<>>]
        f == Append(z.files, pdf_name)
    IN  (zip_name :> [count |-> Len(f), files |-> f]) @@ mf
add_manifest(mf, zip_name, pdf_name) ==
    LET z == IF zip_name \in DOMAIN mf THEN mf[zip_name] ELSE [count |-> 0, files |-> <<>>]
        f == Append(z.files, pdf_name)
    IN  IF InSeq(pdf_name, z.files)
        THEN (zip_name :> z) @@ mf
        ELSE (zip_name :> [count |-> Len(f), files |-> f]) @@ mf

\* the document names of a ledger
FilesOf(mf) == UNION { {mf[k].files[i] : i \in 1..Len(mf[k].files)} : k \in DOMAIN mf }

\* load_all_manifests: the names of every manifest.json that parses
load_all_manifests ==
    UNION { FilesOf(manifestFile[y].zips) : y \in {x \in Years : manifestFile[x].st = "ok"} }

\* cache_path(service, year, pdf_name).exists()
CacheExists(year, name) == <<year, name>> \in DOMAIN cacheFiles

\* a cache file that was written completely, and one cut short by a crash
CacheEntry(name, total, text) == [ok |-> TRUE, filename |-> name, pages |-> total, text |-> text]
PartialEntry == [ok |-> FALSE, filename |-> "", pages |-> 0, text |-> <<>>]
CacheValid(year, name) == CacheExists(year, name) /\ cacheFiles[<<year, name>>].ok

\* the cache files after c_path.write_text(...) / save_cache(...) has written
\* the entry of a document
save_cache_nothing(year, name, entry) == cacheFiles
save_cache(year, name, entry) == (<<year, name>> :> entry) @@ cacheFiles

\* <<year, archive, name>> for every name of the durable ledger
DurableLedger ==
    UNION { UNION { { <<y, k, manifestFile[y].zips[k].files[i]>> :
                        i \in 1..Len(manifestFile[y].zips[k].files) } :
                    k \in DOMAIN manifestFile[y].zips } : y \in Years }

\* ------------------------------------------------------ the process frame
ProcInit ==
    /\ run = 1
    /\ ppc = "boot"
    /\ err = "none"
    /\ zi = 1
    /\ mi = 1
    /\ GLOBAL_FINISHED_FILES = {}
    /\ manifest = EmptyManifest
    /\ pdf_buffers = EmptyFn
    /\ page_tasks = <<>>
    /\ ollama_pool = 0
    /\ poolLog = <<>>
    /\ attempt = 0
    /\ outcomes = <<>>
    /\ ret = [st |-> "running", val |-> <<>>]

HistInit ==
    /\ ocrCalls = {}
    /\ known = {}
    /\ rasterized = {}
    /\ arrivals = <<>>
    /\ cacheWrites = EmptyFn
    /\ written = {}
    /\ startLedger = {}
    /\ startCache = EmptyFn
    /\ prevEnd = "none"
    /\ backend = EmptyFn
    /\ backendChanged = FALSE

OcrOff ==
    /\ results = EmptyFn
    /\ to_process = <<>>
    /\ prodAt = [i |-> 1, b |-> 0, st |-> "off"]
    /\ total_target = 0
    /\ summary = [st |-> "none", files |-> {}]
    /\ write_lock = FALSE

PipeInit ==
    /\ zips \in Scenarios
    /\ OcrOff
    /\ manifestFile = [y \in Years |-> NoFile]
    /\ persisted = {}
    /\ cacheFiles = EmptyFn
    /\ ProcInit
    /\ HistInit

\* the pipeline's variables while a behaviour runs the buffer alone
PipeOff ==
    /\ zips = <<>>
    /\ OcrOff
    /\ manifestFile = [y \in Years |-> NoFile]
    /\ persisted = {}
    /\ cacheFiles = EmptyFn
    /\ ProcInit
    /\ HistInit

\* the buffer's variables while a behaviour runs a pipeline without buffer
BufferOff == BufferInit

Bump(f, k) == (k :> (IF k \in DOMAIN f THEN f[k] + 1 ELSE 1)) @@ f
Count(f, k) == IF k \in DOMAIN f THEN f[k] ELSE 0

\* the backend's answer to a request, remembered per request key
Outcomes == {"ok", "empty", "fail"}
NoteOutcome(key, res) ==
    /\ backend' = (key :> res) @@ backend
    /\ backendChanged' = (backendChanged \/ (key \in DOMAIN backend /\ backend[key] # res))

Running == ppc \notin {"done", "dead", "crashed"}

\* A process is gone: its memory is lost.  (The history of its requests is
\* kept only after a run that ended normally, to compare the next run's
\* answers with.)
ProcGone(end) ==
    /\ ppc' = end
    /\ zi' = 1
    /\ mi' = 1
    /\ GLOBAL_FINISHED_FILES' = {}
    /\ manifest' = EmptyManifest
    /\ pdf_buffers' = EmptyFn
    /\ page_tasks' = <<>>
    /\ ollama_pool' = 0
    /\ poolLog' = <<>>
    /\ ocrCalls' = {}
    /\ known' = {}
    /\ rasterized' = {}
    /\ arrivals' = <<>>
    /\ cacheWrites' = EmptyFn
    /\ written' = {}
    /\ backendChanged' = FALSE

\* The process is killed (or the machine stops) at any point.
Crash ==
    /\ variant \in {"main", "parallel", "batch", "tqdm"}
    /\ Running
    /\ ProcGone("crashed")
    /\ backend' = EmptyFn
    /\ UNCHANGED <<variant, retryVars, bufVars, ocrVars, zips, durVars, run, err, startLedger, startCache, prevEnd>>

\* The pipeline is started again: a new process over the same archives and
\* the durable state the last one left.
Restart ==
    /\ variant \in {"main", "parallel", "batch", "tqdm"}
    /\ ~Running
    /\ run < MaxRuns
    /\ run' = run + 1
    /\ ProcGone("boot")
    /\ err' = "none"
    /\ startLedger' = DurableLedger
    /\ startCache' = [k \in DOMAIN cacheFiles |-> cacheFiles[k].ok]
    /\ prevEnd' = ppc
    /\ backend' = IF ppc = "done" THEN backend ELSE EmptyFn
    /\ UNCHANGED <<variant, retryVars, bufVars, ocrVars, zips, durVars>>

\* ------------------------------------------------ main.py and parallel.py
\* main(): load_all_manifests(), then process_zip for every archive
Boot ==
    /\ variant \in {"main", "parallel"}
    /\ ppc = "boot"
    /\ GLOBAL_FINISHED_FILES' = load_all_manifests
    /\ ppc' = "zip"
    /\ UNCHANGED <<variant, retryVars, poolVars, bufVars, ocrVars, zips, durVars, run, err, zi, mi, manifest, pdf_buffers,
                   page_tasks, histVars>>

\* main(): every archive has been processed
Finish ==
    /\ variant \in {"main", "parallel", "batch", "tqdm"}
    /\ ppc = "zip"
    /\ zi > Len(zips)
    /\ ppc' = "done"
    /\ UNCHANGED <<variant, retryVars, poolVars, bufVars, ocrVars, zips, durVars, run, err, zi, mi, GLOBAL_FINISHED_FILES,
                   manifest, pdf_buffers, page_tasks, histVars>>

\* process_zip, up to the loop over the members: manifest = load_manifest(...)
\* (main.py, parallel.py and tqdm.py: a file that does not parse gives the
\* empty ledger)
ProcessZipBegin ==
    /\ variant \in {"main", "parallel", "tqdm"}
    /\ ppc = "zip"
    /\ zi <= Len(zips)
    /\ manifest' = load_manifest(CurYear)
    /\ pdf_buffers' = EmptyFn
    /\ page_tasks' = <<>>
    /\ arrivals' = <<>>
    /\ cacheWrites' = EmptyFn
    /\ mi' = 1
    /\ ppc' = "scan"
    /\ UNCHANGED <<variant, retryVars, poolVars, bufVars, ocrVars, zips, durVars, run, err, zi, GLOBAL_FINISHED_FILES,
                   ocrCalls, known, rasterized, written, startLedger, startCache, prevEnd,
                   backend, backendChanged>>

\* the two skip checks of main.py and parallel.py: the global index, then
\* the cache file
SkipsIndexOnly(year, name) == name \in GLOBAL_FINISHED_FILES
Skips(year, name) == name \in GLOBAL_FINISHED_FILES \/ CacheExists(year, name)

\* the size check: pdfinfo raises, or total_pages > MAX_PAGES
RejectsAtMax(mem) == ~mem.readable \/ mem.pages >= MAX_PAGES
Rejects(mem) == ~mem.readable \/ mem.pages > MAX_PAGES

\* what the claims call "already finished" for a document at its discovery:
\* in the global index, in the ledger of its archive, or in the cache
IsKnown(year, key, name) ==
    \/ name \in GLOBAL_FINISHED_FILES
    \/ in_manifest(manifest, key, name)
    \/ CacheValid(year, name)

NewTask(m, name, i, total) ==
    [m |-> m, pdf_name |-> name, idx |-> i, total_pages |-> total, st |-> "new", res |-> "none"]

\* process_zip of main.py, one pass of the loop over z.infolist(): skip,
\* extract the member (which raises for a corrupt one: nothing catches it
\* and the error leaves process_zip and main()), reject, or rasterize the
\* document, create its slot array and queue one task per page
MainDiscover ==
    /\ variant = "main"
    /\ ppc = "scan"
    /\ mi <= Len(CurZip.members)
    /\ LET mem == CurZip.members[mi]
           name == mem.name
       IN  /\ known' = IF IsKnown(CurYear, CurZip.key, name) THEN known \cup {<<zi, mi>>} ELSE known
           /\ IF ~Skips(CurYear, name) /\ mem.corrupt
              THEN /\ err' = "extract"
                   /\ ppc' = "dead"
                   /\ UNCHANGED <<mi, pdf_buffers, page_tasks, rasterized>>
              ELSE /\ mi' = mi + 1
                   /\ UNCHANGED <<ppc, err>>
                   /\ IF Skips(CurYear, name) \/ Rejects(mem)
                      THEN UNCHANGED <<pdf_buffers, page_tasks, rasterized>>
                      ELSE /\ rasterized' = rasterized \cup {<<zi, mi>>}
                           /\ pdf_buffers' = (name :> [total |-> mem.pages,
                                                        texts |-> [i \in 1..mem.pages |-> <<>>]]) @@ pdf_buffers
                           /\ page_tasks' = page_tasks \o
                                   [i \in 1..mem.pages |-> NewTask(mi, name, i - 1, mem.pages)]
    /\ UNCHANGED <<variant, retryVars, poolVars, bufVars, ocrVars, zips, durVars, run, zi, GLOBAL_FINISHED_FILES,
                   manifest, ocrCalls, arrivals, cacheWrites, written, startLedger, startCache,
                   prevEnd, backend, backendChanged>>

\* futures = [ex.submit(ocr_worker, t) for t in page_tasks]
Submit(tasks) == [k \in 1..Len(tasks) |-> [tasks[k] EXCEPT !.st = "queued"]]

\* process_zip of main.py: the archive is closed and the pool is opened
MainSubmit ==
    /\ variant = "main"
    /\ ppc = "scan"
    /\ mi > Len(CurZip.members)
    /\ page_tasks' = Submit(page_tasks)
    /\ ppc' = "pool"
    /\ UNCHANGED <<variant, retryVars, poolVars, bufVars, ocrVars, zips, durVars, run, err, zi, mi, GLOBAL_FINISHED_FILES,
                   manifest, pdf_buffers, histVars>>

\* OLLAMA_URLS of main.py and parallel.py: MAX_WORKERS = len(OLLAMA_URLS)
\* endpoints, each named by its place in the list
OLLAMA_URLS == [i \in 1..MAX_WORKERS |-> i]

\* next(ollama_pool) on cycle(OLLAMA_URLS) at position c: the endpoint
\* returned and the position after the call.  The call is one step: cycle's
\* next runs without releasing the interpreter lock.
PoolNextRepeats(c) == [url |-> OLLAMA_URLS[c + 1], pool |-> c]
PoolNext(c) == [url |-> OLLAMA_URLS[c + 1], pool |-> (c + 1) % Len(OLLAMA_URLS)]

\* the tasks a thread of ThreadPoolExecutor(max_workers=MAX_WORKERS) is running
NumRunningButOne == Cardinality({k \in 1..Len(page_tasks) : page_tasks[k].st = "running"}) - 1
NumRunning == Cardinality({k \in 1..Len(page_tasks) : page_tasks[k].st = "running"})

\* A pool thread takes the oldest queued task and runs ocr_worker on it: it
\* takes base_url = next(ollama_pool) and the request is sent to the backend.  The pool also works off its queue while
\* an exception unwinds through the with block (shutdown(wait=True)).
StartTask(k) ==
    /\ variant \in {"main", "parallel"}
    /\ ppc \in {"pool", "unwind"}
    /\ k \in 1..Len(page_tasks)
    /\ page_tasks[k].st = "queued"
    /\ \A j \in 1..(k - 1) : page_tasks[j].st # "queued"
    /\ NumRunning < MAX_WORKERS
    /\ page_tasks' = [page_tasks EXCEPT ![k].st = "running"]
    /\ ollama_pool' = PoolNext(ollama_pool).pool
    /\ poolLog' = Append(poolLog, PoolNext(ollama_pool).url)
    /\ ocrCalls' = ocrCalls \cup {<<zi, page_tasks[k].m, page_tasks[k].idx>>}
    /\ UNCHANGED <<variant, retryVars, bufVars, ocrVars, zips, durVars, procVarsButTasks, known, rasterized, arrivals,
                   cacheWrites, written, startLedger, startCache, prevEnd, backend, backendChanged>>

\* ocr_worker returns (the answer's text, possibly empty) or raises
\* (requests.post times out, raise_for_status, r.json())
FinishTask(k) ==
    /\ variant \in {"main", "parallel"}
    /\ ppc \in {"pool", "unwind"}
    /\ k \in 1..Len(page_tasks)
    /\ page_tasks[k].st = "running"
    /\ \E res \in Outcomes :
          /\ page_tasks' = [page_tasks EXCEPT ![k].st = "finished", ![k].res = res]
          /\ NoteOutcome(<<zi, page_tasks[k].m, page_tasks[k].idx>>, res)
    /\ UNCHANGED <<variant, retryVars, poolVars, bufVars, ocrVars, zips, durVars, procVarsButTasks, ocrCalls, known, rasterized,
                   arrivals, cacheWrites, written, startLedger, startCache, prevEnd>>

\* done = sum(1 for t in state["texts"] if t)
DoneCount(texts) == Cardinality({i \in 1..Len(texts) : texts[i] # <<>>})

\* state["texts"][idx] = text
StoreAppend(texts, idx, text) == SubSeq(texts, 2, Len(texts)) \o <<text>>
Store(texts, idx, text) == [texts EXCEPT ![idx + 1] = text]

\* the text main.py and parallel.py write: "\n\n".join(texts)
JoinedText(texts) == Join(<<NL, NL>>, texts)

\* process_zip of main.py, one pass of the loop over as_completed(futures)
\* for a future that returned: fill the slot, count the non-empty slots and,
\* when they are all non-empty, write the cache file, record the document
\* in the ledger and in the global index.
MainFilled(k) ==
    LET t == page_tasks[k]
    IN  Store(pdf_buffers[t.pdf_name].texts, t.idx, PageText(zi, t.m, t.idx, t.res))

MainCanConsume(k) ==
    /\ variant = "main"
    /\ ppc = "pool"
    /\ k \in 1..Len(page_tasks)
    /\ page_tasks[k].st = "finished"
    /\ page_tasks[k].res # "fail"
    /\ page_tasks[k].idx < Len(pdf_buffers[page_tasks[k].pdf_name].texts)

\* if done == state["total"]
MainCompletes(k) == DoneCount(MainFilled(k)) = pdf_buffers[page_tasks[k].pdf_name].total

MainConsume(k) ==
    /\ MainCanConsume(k)
    /\ LET t == page_tasks[k]
           name == t.pdf_name
           state == pdf_buffers[name]
           texts == MainFilled(k)
       IN  /\ pdf_buffers' = [pdf_buffers EXCEPT ![name].texts = texts]
           /\ arrivals' = Append(arrivals, <<name, t.idx>>)
           /\ page_tasks' = [page_tasks EXCEPT ![k].st = "yielded"]
           /\ IF MainCompletes(k)
              THEN /\ cacheFiles' = save_cache(CurYear, name,
                                                CacheEntry(name, state.total, JoinedText(texts)))
                   /\ cacheWrites' = Bump(cacheWrites, name)
                   /\ written' = written \cup {<<CurYear, name>>}
                   /\ manifest' = add_manifest(manifest, CurZip.key, name)
                   /\ GLOBAL_FINISHED_FILES' = GLOBAL_FINISHED_FILES \cup {name}
              ELSE UNCHANGED <<cacheFiles, cacheWrites, written, manifest, GLOBAL_FINISHED_FILES>>
    /\ UNCHANGED <<variant, retryVars, poolVars, bufVars, ocrVars, zips, manifestFile, persisted, run, ppc, err, zi, mi, ocrCalls, known,
                   rasterized, startLedger, startCache, prevEnd, backend, backendChanged>>

\* The process is killed while c_path.write_text is writing the cache file:
\* the file exists and is cut short.
MainCrashInCacheWrite(k) ==
    /\ MainCanConsume(k)
    /\ MainCompletes(k)
    /\ cacheFiles' = (<<CurYear, page_tasks[k].pdf_name>> :> PartialEntry) @@ cacheFiles
    /\ ProcGone("crashed")
    /\ backend' = EmptyFn
    /\ UNCHANGED <<variant, retryVars, bufVars, ocrVars, zips, manifestFile, persisted, run, err, startLedger, startCache, prevEnd>>

\* f.result() re-raises what ocr_worker raised, or texts[idx] is out of range:
\* nothing catches it, the with block waits for the pool and the error
\* leaves process_zip and main()
Raise(k) ==
    /\ variant \in {"main", "parallel"}
    /\ ppc = "pool"
    /\ k \in 1..Len(page_tasks)
    /\ page_tasks[k].st = "finished"
    /\ \/ /\ page_tasks[k].res = "fail"
          /\ err' = "ocr"
       \/ /\ page_tasks[k].res # "fail"
          /\ variant = "main"
          /\ page_tasks[k].idx >= Len(pdf_buffers[page_tasks[k].pdf_name].texts)
          /\ err' = "index"
    /\ page_tasks' = [page_tasks EXCEPT ![k].st = "yielded"]
    /\ ppc' = "unwind"
    /\ UNCHANGED <<variant, retryVars, poolVars, bufVars, ocrVars, zips, durVars, run, zi, mi, GLOBAL_FINISHED_FILES, manifest,
                   pdf_buffers, histVars>>

\* the pool has worked off its queue: the uncaught exception ends the process
Die ==
    /\ variant \in {"main", "parallel"}
    /\ ppc = "unwind"
    /\ \A k \in 1..Len(page_tasks) : page_tasks[k].st \notin {"queued", "running"}
    /\ ppc' = "dead"
    /\ UNCHANGED <<variant, retryVars, poolVars, bufVars, ocrVars, zips, durVars, run, err, zi, mi, GLOBAL_FINISHED_FILES,
                   manifest, pdf_buffers, page_tasks, histVars>>

\* process_zip of main.py: as_completed is exhausted, the pool is closed
MainPoolDone ==
    /\ variant = "main"
    /\ ppc = "pool"
    /\ \A k \in 1..Len(page_tasks) : page_tasks[k].st = "yielded"
    /\ ppc' = "save"
    /\ UNCHANGED <<variant, retryVars, poolVars, bufVars, ocrVars, zips, durVars, run, err, zi, mi, GLOBAL_FINISHED_FILES,
                   manifest, pdf_buffers, page_tasks, histVars>>

\* process_zip, last line: save_manifest(service, year, manifest)
SaveManifest ==
    /\ variant \in {"main", "parallel", "batch"}
    /\ ppc = "save"
    /\ manifestFile' = save_manifest(CurYear, manifest)
    /\ persisted' = persisted \cup DurableLedger'
    /\ ppc' = "zip"
    /\ zi' = zi + 1
    /\ UNCHANGED <<variant, retryVars, poolVars, bufVars, ocrVars, zips, cacheFiles, run, err, mi, GLOBAL_FINISHED_FILES,
                   manifest, pdf_buffers, page_tasks, histVars>>

\* The process is killed while write_text is writing manifest.json: the file
\* was truncated and is cut short.
CrashInSave ==
    /\ variant \in {"main", "parallel", "batch", "tqdm"}
    /\ ppc \in {"save", "docsave"}
    /\ manifestFile' = [manifestFile EXCEPT ![CurYear] = CorruptFile]
    /\ persisted' = persisted
    /\ ProcGone("crashed")
    /\ backend' = EmptyFn
    /\ UNCHANGED <<variant, retryVars, bufVars, ocrVars, zips, cacheFiles, run, err, startLedger, startCache, prevEnd>>

InitMain == variant = "main" /\ BufferOff /\ PipeInit

NextMain ==
    \/ Boot
    \/ ProcessZipBegin
    \/ MainDiscover
    \/ MainSubmit
    \/ \E k \in 1..Len(page_tasks) : StartTask(k)
    \/ \E k \in 1..Len(page_tasks) : FinishTask(k)
    \/ \E k \in 1..Len(page_tasks) : MainConsume(k)
    \/ \E k \in 1..Len(page_tasks) : MainCrashInCacheWrite(k)
    \/ \E k \in 1..Len(page_tasks) : Raise(k)
    \/ Die
    \/ MainPoolDone
    \/ SaveManifest
    \/ CrashInSave
    \/ Finish
    \/ Crash
    \/ Restart

SpecMain == InitMain /\ [][NextMain]_vars

\* ------------------------------------------------------------ parallel.py
\* process_pdf_from_zip of parallel.py up to the pool: skip, extract the
\* member (the zipfile.BadZipFile of a corrupt one is caught and the member
\* given up), reject, or rasterize the document, create
\* results = [""] * total_pages and submit one task per page to a pool of
\* its own
ParDiscover ==
    /\ variant = "parallel"
    /\ ppc = "scan"
    /\ mi <= Len(CurZip.members)
    /\ LET mem == CurZip.members[mi]
           name == mem.name
       IN  /\ known' = IF IsKnown(CurYear, CurZip.key, name) THEN known \cup {<<zi, mi>>} ELSE known
           /\ IF Skips(CurYear, name) \/ mem.corrupt \/ Rejects(mem)
              THEN /\ mi' = mi + 1
                   /\ UNCHANGED <<ppc, pdf_buffers, page_tasks, rasterized>>
              ELSE /\ rasterized' = rasterized \cup {<<zi, mi>>}
                   /\ pdf_buffers' = (name :> [total |-> mem.pages,
                                                texts |-> [i \in 1..mem.pages |-> <<>>]])
                   /\ page_tasks' = Submit([i \in 1..mem.pages |-> NewTask(mi, name, i - 1, mem.pages)])
                   /\ ppc' = "pool"
                   /\ mi' = mi
    /\ UNCHANGED <<variant, retryVars, poolVars, bufVars, ocrVars, zips, durVars, run, err, zi, GLOBAL_FINISHED_FILES,
                   manifest, ocrCalls, arrivals, cacheWrites, written, startLedger, startCache,
                   prevEnd, backend, backendChanged>>

\* one pass of the loop over as_completed(futures) for a future that
\* returned: results[idx] = text
ParConsume(k) ==
    /\ variant = "parallel"
    /\ ppc = "pool"
    /\ k \in 1..Len(page_tasks)
    /\ page_tasks[k].st = "finished"
    /\ page_tasks[k].res # "fail"
    /\ LET t == page_tasks[k]
       IN  /\ pdf_buffers' = [pdf_buffers EXCEPT ![t.pdf_name].texts =
                                 Store(@, t.idx, PageText(zi, t.m, t.idx, t.res))]
           /\ arrivals' = Append(arrivals, <<t.pdf_name, t.idx>>)
    /\ page_tasks' = [page_tasks EXCEPT ![k].st = "yielded"]
    /\ UNCHANGED <<variant, retryVars, poolVars, bufVars, ocrVars, zips, durVars, run, ppc, err, zi, mi, GLOBAL_FINISHED_FILES,
                   manifest, ocrCalls, known, rasterized, cacheWrites, written, startLedger,
                   startCache, prevEnd, backend, backendChanged>>

ParAllYielded ==
    /\ variant = "parallel"
    /\ ppc = "pool"
    /\ \A k \in 1..Len(page_tasks) : page_tasks[k].st = "yielded"

\* process_pdf_from_zip of parallel.py after the pool: write the cache file,
\* record the document in the ledger and in the global index
ParCommit ==
    /\ ParAllYielded
    /\ LET name == CurZip.members[mi].name
           state == pdf_buffers[name]
       IN  /\ cacheFiles' = save_cache(CurYear, name,
                                         CacheEntry(name, state.total, JoinedText(state.texts)))
           /\ cacheWrites' = Bump(cacheWrites, name)
           /\ written' = written \cup {<<CurYear, name>>}
           /\ manifest' = add_manifest(manifest, CurZip.key, name)
           /\ GLOBAL_FINISHED_FILES' = GLOBAL_FINISHED_FILES \cup {name}
    /\ mi' = mi + 1
    /\ ppc' = "scan"
    /\ UNCHANGED <<variant, retryVars, poolVars, bufVars, ocrVars, zips, manifestFile, persisted, run, err, zi, pdf_buffers, page_tasks,
                   ocrCalls, known, rasterized, arrivals, startLedger, startCache, prevEnd,
                   backend, backendChanged>>

\* The process is killed while c_path.write_text is writing the cache file.
ParCrashInCacheWrite ==
    /\ ParAllYielded
    /\ cacheFiles' = (<<CurYear, CurZip.members[mi].name>> :> PartialEntry) @@ cacheFiles
    /\ ProcGone("crashed")
    /\ backend' = EmptyFn
    /\ UNCHANGED <<variant, retryVars, bufVars, ocrVars, zips, manifestFile, persisted, run, err, startLedger, startCache, prevEnd>>

\* process_zip of parallel.py and batch.py: the loop over z.infolist() ends
ScanDone ==
    /\ variant \in {"parallel", "batch"}
    /\ ppc = "scan"
    /\ mi > Len(CurZip.members)
    /\ ppc' = "save"
    /\ UNCHANGED <<variant, retryVars, poolVars, bufVars, ocrVars, zips, durVars, run, err, zi, mi, GLOBAL_FINISHED_FILES,
                   manifest, pdf_buffers, page_tasks, histVars>>

InitParallel == variant = "parallel" /\ BufferOff /\ PipeInit

NextParallel ==
    \/ Boot
    \/ ProcessZipBegin
    \/ ParDiscover
    \/ \E k \in 1..Len(page_tasks) : StartTask(k)
    \/ \E k \in 1..Len(page_tasks) : FinishTask(k)
    \/ \E k \in 1..Len(page_tasks) : ParConsume(k)
    \/ \E k \in 1..Len(page_tasks) : Raise(k)
    \/ Die
    \/ ParCommit
    \/ ParCrashInCacheWrite
    \/ ScanDone
    \/ SaveManifest
    \/ CrashInSave
    \/ Finish
    \/ Crash
    \/ Restart

SpecParallel == InitParallel /\ [][NextParallel]_vars

\* --------------------------------------------------------------- batch.py
\* main() of batch.py and of tqdm.py: no global index is built
BatchBoot ==
    /\ variant \in {"batch", "tqdm"}
    /\ ppc = "boot"
    /\ ppc' = "zip"
    /\ UNCHANGED <<variant, retryVars, poolVars, bufVars, ocrVars, zips, durVars, run, err, zi, mi, GLOBAL_FINISHED_FILES,
                   manifest, pdf_buffers, page_tasks, histVars>>

\* process_zip of batch.py up to the loop: load_manifest of batch.py parses
\* the file without a try, so a file that does not parse raises
BatchProcessZipBegin ==
    /\ variant = "batch"
    /\ ppc = "zip"
    /\ zi <= Len(zips)
    /\ IF manifestFile[CurYear].st = "corrupt"
       THEN /\ err' = "manifest"
            /\ ppc' = "dead"
            /\ UNCHANGED <<manifest, mi>>
       ELSE /\ manifest' = load_manifest(CurYear)
            /\ mi' = 1
            /\ ppc' = "scan"
            /\ err' = err
    /\ pdf_buffers' = EmptyFn
    /\ arrivals' = <<>>
    /\ cacheWrites' = EmptyFn
    /\ UNCHANGED <<variant, retryVars, poolVars, bufVars, ocrVars, zips, durVars, run, zi, GLOBAL_FINISHED_FILES, page_tasks,
                   ocrCalls, known, rasterized, written, startLedger, startCache, prevEnd,
                   backend, backendChanged>>

\* the skip checks of batch.py: in_manifest(...), then load_cache(...), which
\* is None for a missing file and for one that does not parse
BatchSkipsLedgerOnly(year, key, name) == in_manifest(manifest, key, name)
BatchSkips(year, key, name) == in_manifest(manifest, key, name) \/ CacheValid(year, name)

\* process_pdf_from_zip of batch.py up to the loop over the batches; the
\* extraction of a corrupt member raises and nothing catches it.  While
\* a document is processed pdf_buffers holds its local variables:
\* total_pages, texts and batch_start.
BatchDiscover ==
    /\ variant = "batch"
    /\ ppc = "scan"
    /\ mi <= Len(CurZip.members)
    /\ LET mem == CurZip.members[mi]
           name == mem.name
       IN  /\ known' = IF IsKnown(CurYear, CurZip.key, name) THEN known \cup {<<zi, mi>>} ELSE known
           /\ IF BatchSkips(CurYear, CurZip.key, name)
              THEN /\ manifest' = IF in_manifest(manifest, CurZip.key, name)
                                  THEN manifest
                                  ELSE add_manifest(manifest, CurZip.key, name)
                   /\ mi' = mi + 1
                   /\ UNCHANGED <<ppc, err, pdf_buffers>>
              ELSE IF mem.corrupt
              THEN /\ err' = "extract"
                   /\ ppc' = "dead"
                   /\ UNCHANGED <<mi, pdf_buffers, manifest>>
              ELSE IF Rejects(mem)
              THEN /\ mi' = mi + 1
                   /\ UNCHANGED <<ppc, err, pdf_buffers, manifest>>
              ELSE /\ pdf_buffers' = (name :> [total |-> mem.pages, texts |-> <<>>, batch_start |-> 1])
                   /\ ppc' = "batches"
                   /\ UNCHANGED <<mi, err, manifest>>
    /\ UNCHANGED <<variant, retryVars, poolVars, bufVars, ocrVars, zips, durVars, run, zi, GLOBAL_FINISHED_FILES,
                   page_tasks, ocrCalls, rasterized, arrivals, cacheWrites, written, startLedger,
                   startCache, prevEnd, backend, backendChanged>>

BatchName == CurZip.members[mi].name
BatchState == pdf_buffers[BatchName]

\* batch_end = min(batch_start + BATCH_SIZE - 1, total_pages)
BatchEnd(batch_start, total) ==
    IF batch_start + BATCH_SIZE - 1 < total THEN batch_start + BATCH_SIZE - 1 ELSE total

\* pages = [p.strip() for p in raw.split("===PAGE===")]: an answer with one
\* text per page, or an answer without any text, which splits into one
\* empty text
BatchTexts(z, m, first, last, res) ==
    IF res = "ok" THEN [i \in 1..(last - first + 1) |-> <<Tok(z, m, first + i - 2)>>]
    ELSE <<<<>>>>

\* One pass of the loop over the batches with convert_from_path succeeding:
\* the request for the batch is sent; its texts are appended, or the request
\* raises and the loop is left by break.
BatchOcr ==
    /\ variant = "batch"
    /\ ppc = "batches"
    /\ BatchState.batch_start <= BatchState.total
    /\ LET first == BatchState.batch_start
           last == BatchEnd(first, BatchState.total)
       IN  /\ rasterized' = rasterized \cup {<<zi, mi>>}
           /\ ocrCalls' = ocrCalls \cup {<<zi, mi, first>>}
           /\ \E res \in Outcomes :
                 /\ NoteOutcome(<<zi, mi, first>>, res)
                 /\ IF res = "fail"
                    THEN /\ ppc' = "commit"
                         /\ UNCHANGED pdf_buffers
                    ELSE /\ pdf_buffers' = [pdf_buffers EXCEPT
                                ![BatchName].texts = @ \o BatchTexts(zi, mi, first, last, res),
                                ![BatchName].batch_start = first + BATCH_SIZE]
                         /\ ppc' = ppc
    /\ UNCHANGED <<variant, retryVars, poolVars, bufVars, ocrVars, zips, durVars, run, err, zi, mi, GLOBAL_FINISHED_FILES,
                   manifest, page_tasks, known, arrivals, cacheWrites, written, startLedger,
                   startCache, prevEnd>>

\* One pass of the loop with convert_from_path raising: the except clause
\* breaks, and the finally clause reads images, which is unbound (never
\* assigned, or deleted by the pass before): the UnboundLocalError leaves
\* process_pdf_from_zip, process_zip and main().
BatchRasterFails ==
    /\ variant = "batch"
    /\ ppc = "batches"
    /\ BatchState.batch_start <= BatchState.total
    /\ err' = "unbound"
    /\ ppc' = "dead"
    /\ UNCHANGED <<variant, retryVars, poolVars, bufVars, ocrVars, zips, durVars, run, zi, mi, GLOBAL_FINISHED_FILES,
                   manifest, pdf_buffers, page_tasks, histVars>>

\* the loop over the batches is exhausted
BatchLoopEnd ==
    /\ variant = "batch"
    /\ ppc = "batches"
    /\ BatchState.batch_start > BatchState.total
    /\ ppc' = "commit"
    /\ UNCHANGED <<variant, retryVars, poolVars, bufVars, ocrVars, zips, durVars, run, err, zi, mi, GLOBAL_FINISHED_FILES,
                   manifest, pdf_buffers, page_tasks, histVars>>

\* the text batch.py writes: "\n\n".join(texts).strip()
BatchJoinedText(texts) == Strip(Join(<<NL, NL>>, texts))

\* process_pdf_from_zip of batch.py after the loop: save_cache, add_manifest
BatchCommit ==
    /\ variant = "batch"
    /\ ppc = "commit"
    /\ cacheFiles' = save_cache(CurYear, BatchName,
                CacheEntry(BatchName, BatchState.total, BatchJoinedText(BatchState.texts)))
    /\ cacheWrites' = Bump(cacheWrites, BatchName)
    /\ written' = written \cup {<<CurYear, BatchName>>}
    /\ manifest' = add_manifest(manifest, CurZip.key, BatchName)
    /\ mi' = mi + 1
    /\ ppc' = "scan"
    /\ UNCHANGED <<variant, retryVars, poolVars, bufVars, ocrVars, zips, manifestFile, persisted, run, err, zi, GLOBAL_FINISHED_FILES,
                   pdf_buffers, page_tasks, ocrCalls, known, rasterized, arrivals, startLedger,
                   startCache, prevEnd, backend, backendChanged>>

\* The process is killed while save_cache is writing the cache file
\* (batch.py and tqdm.py).
BatchCrashInCacheWrite ==
    /\ variant \in {"batch", "tqdm"}
    /\ ppc = "commit"
    /\ cacheFiles' = (<<CurYear, BatchName>> :> PartialEntry) @@ cacheFiles
    /\ ProcGone("crashed")
    /\ backend' = EmptyFn
    /\ UNCHANGED <<variant, retryVars, bufVars, ocrVars, zips, manifestFile, persisted, run, err, startLedger, startCache, prevEnd>>

InitBatch == variant = "batch" /\ BufferOff /\ PipeInit

NextBatch ==
    \/ BatchBoot
    \/ BatchProcessZipBegin
    \/ BatchDiscover
    \/ BatchOcr
    \/ BatchRasterFails
    \/ BatchLoopEnd
    \/ BatchCommit
    \/ BatchCrashInCacheWrite
    \/ ScanDone
    \/ SaveManifest
    \/ CrashInSave
    \/ Finish
    \/ Crash
    \/ Restart

SpecBatch == InitBatch /\ [][NextBatch]_vars

\* ----------------------------------------------------------------- ocr.py
\* The documents of an archive of ocr.py are the .pdf files of one
\* directory: their names differ.
OcrScenarios ==
    { <<Zip("z1", "y1", <<Mem("a.pdf", BATCH_SIZE + 1), Mem("b.pdf", 1)>>)>>,
      <<Zip("z1", "y1", <<Mem("a.pdf", MAX_PAGES_PER_DOC + 1), Mem("b.pdf", BATCH_SIZE)>>)>>,
      <<Zip("z1", "y1", <<BadMem("a.pdf"), Mem("b.pdf", BATCH_SIZE + 1)>>)>>,
      <<Zip("z1", "y1", <<CorruptMem("a.pdf"), Mem("b.pdf", 1)>>)>> }

Producer == "p1"

FinalResult(pages_, text) == [final |-> TRUE, pages |-> pages_, texts |-> EmptyFn, text |-> text]
OpenResult(pages_, texts) == [final |-> FALSE, pages |-> pages_, texts |-> texts, text |-> <<>>]

\* process_zip of ocr.py up to the loop over the pdfs
OcrProcessZipBegin ==
    /\ variant \in {"ocr", "devnull"}
    /\ ppc \in {"boot", "zip"}
    /\ zi <= Len(zips)
    /\ results' = EmptyFn
    /\ to_process' = <<>>
    /\ mi' = 1
    /\ ppc' = "scan"
    /\ arrivals' = <<>>
    /\ cacheWrites' = EmptyFn
    /\ UNCHANGED <<variant, retryVars, poolVars, write_lock, bufVars, zips, durVars, run, err, zi, GLOBAL_FINISHED_FILES, manifest,
                   pdf_buffers, page_tasks, ocrCalls, known, rasterized, written, startLedger,
                   startCache, prevEnd, backend, backendChanged, prodAt, total_target, summary>>

\* main() of ocr.py: every archive has been processed
OcrFinish ==
    /\ variant \in {"ocr", "devnull"}
    /\ ppc \in {"boot", "zip"}
    /\ zi > Len(zips)
    /\ ppc' = "done"
    /\ UNCHANGED <<variant, retryVars, poolVars, bufVars, ocrVars, zips, durVars, run, err, zi, mi,
                   GLOBAL_FINISHED_FILES, manifest, pdf_buffers, page_tasks, histVars>>

\* the size check of ocr.py: pdfinfo raises, or total_pages > MAX_PAGES_PER_DOC
OcrRejects(mem) == ~mem.readable \/ mem.pages > MAX_PAGES_PER_DOC

\* process_zip of ocr.py and of dev-null/ocr.py, one pass of the loop over
\* the pdfs: load_cache (in ocr.py json.load without a try, in
\* dev-null/ocr.py None for a file that does not parse), then the size
\* check.  A corrupt member is not among the pdfs: safe_extract passed over
\* it.
OcrDiscover ==
    /\ variant \in {"ocr", "devnull"}
    /\ ppc = "scan"
    /\ mi <= Len(CurZip.members)
    /\ LET mem == CurZip.members[mi]
           name == mem.name
       IN  /\ known' = IF CacheValid(CurYear, name) /\ ~mem.corrupt THEN known \cup {<<zi, mi>>}
                       ELSE known
           /\ IF mem.corrupt
              THEN /\ mi' = mi + 1
                   /\ UNCHANGED <<results, to_process, err, ppc>>
              ELSE IF variant = "ocr" /\ CacheExists(CurYear, name) /\ ~cacheFiles[<<CurYear, name>>].ok
              THEN /\ err' = "cache"
                   /\ ppc' = "dead"
                   /\ UNCHANGED <<results, to_process, mi>>
              ELSE /\ IF CacheValid(CurYear, name)
                      THEN /\ results' = (name :> FinalResult(cacheFiles[<<CurYear, name>>].pages,
                                                              cacheFiles[<<CurYear, name>>].text)) @@ results
                           /\ UNCHANGED to_process
                      ELSE /\ to_process' = IF OcrRejects(mem) THEN to_process ELSE Append(to_process, mi)
                           /\ UNCHANGED results
                   /\ mi' = mi + 1
                   /\ UNCHANGED <<err, ppc>>
    /\ UNCHANGED <<variant, retryVars, poolVars, write_lock, bufVars, zips, durVars, run, zi, GLOBAL_FINISHED_FILES, manifest,
                   pdf_buffers, page_tasks, ocrCalls, rasterized, arrivals, cacheWrites, written,
                   startLedger, startCache, prevEnd, backend, backendChanged, prodAt,
                   total_target, summary>>

\* process_zip of ocr.py: nothing to process, or a new PageBuffer, the
\* producer thread and the consumer threads are started
OcrStart ==
    /\ variant \in {"ocr", "devnull"}
    /\ ppc = "scan"
    /\ mi > Len(CurZip.members)
    /\ IF to_process = <<>>
       THEN /\ ppc' = "summary"
            /\ UNCHANGED <<bufVars, prodAt, total_target>>
       ELSE /\ ppc' = "join"
            /\ buffer' = <<>>
            /\ pages' = 0
            /\ pc' = [t \in Threads |-> "idle"]
            /\ cur' = [t \in Threads |-> NoItem]
            /\ total_target' = Cardinality(DOMAIN results) + Len(to_process)
            /\ prodAt' = [i |-> 1, b |-> 0, st |-> "convert"]
            /\ UNCHANGED <<nextId, putLog, getLog>>
    /\ UNCHANGED <<variant, retryVars, poolVars, write_lock, zips, durVars, run, err, zi, mi, GLOBAL_FINISHED_FILES, manifest,
                   pdf_buffers, page_tasks, histVars, results, to_process, summary>>

ProdMember == to_process[prodAt.i]

\* pdf_producer, per document: convert_from_path rasterizes it, or raises and
\* the document is given up
ProdConvert(ok) ==
    /\ variant \in {"ocr", "devnull"}
    /\ ppc \in {"join", "wait", "summary"}
    /\ prodAt.st = "convert"
    /\ prodAt.i <= Len(to_process)
    /\ IF ok
       THEN /\ prodAt' = [prodAt EXCEPT !.st = "put", !.b = 0]
            /\ rasterized' = rasterized \cup {<<zi, ProdMember>>}
       ELSE /\ prodAt' = [prodAt EXCEPT !.i = @ + 1]
            /\ UNCHANGED rasterized
    /\ UNCHANGED <<variant, retryVars, poolVars, write_lock, bufVars, zips, durVars, procVars, ocrCalls, known, arrivals,
                   cacheWrites, written, startLedger, startCache, prevEnd, backend,
                   backendChanged, results, to_process, total_target, summary>>

\* pdf_producer: the loop over the documents is exhausted, the thread ends
ProdEnd ==
    /\ variant \in {"ocr", "devnull"}
    /\ prodAt.st = "convert"
    /\ prodAt.i > Len(to_process)
    /\ prodAt' = [prodAt EXCEPT !.st = "done"]
    /\ UNCHANGED <<variant, retryVars, poolVars, write_lock, bufVars, zips, durVars, procVars, histVars, results, to_process,
                   total_target, summary>>

\* batch = ready_images[idx : idx + BATCH_SIZE]: the number of its images
BatchLen(idx, total) == IF idx + BATCH_SIZE <= total THEN BATCH_SIZE ELSE total - idx

\* pdf_producer, the loop over range(0, len(ready_images), BATCH_SIZE): the
\* next batch is handed to buffer.put, or the document is finished
\* (BATCH_SIZE = 1 in dev-null/ocr.py: every item carries one page)
ProdCallPut ==
    /\ variant \in {"ocr", "devnull"}
    /\ prodAt.st = "put"
    /\ pc[Producer] = "idle"
    /\ LET mem == CurZip.members[ProdMember]
           idx == prodAt.b * (IF variant = "devnull" THEN 1 ELSE BATCH_SIZE)
       IN  IF idx < mem.pages
           THEN /\ cur' = [cur EXCEPT ![Producer] =
                              Item(nextId + 1, mem.name, ProdMember, prodAt.b,
                                   IF variant = "devnull" THEN 1 ELSE BatchLen(idx, mem.pages),
                                   mem.pages)]
                /\ nextId' = nextId + 1
                /\ pc' = [pc EXCEPT ![Producer] = "ready"]
                /\ prodAt' = [prodAt EXCEPT !.b = @ + 1]
           ELSE /\ prodAt' = [prodAt EXCEPT !.i = @ + 1, !.st = "convert"]
                /\ UNCHANGED <<cur, nextId, pc>>
    /\ UNCHANGED <<variant, retryVars, poolVars, write_lock, buffer, pages, putLog, getLog, zips, durVars, procVars, histVars,
                   results, to_process, total_target, summary>>

ProdPut ==
    /\ variant \in {"ocr", "devnull"}
    /\ PutStep(Producer)
    /\ UNCHANGED <<variant, retryVars, pipeVars>>

\* ocr_consumer: item = buffer.get()
OcrCallGet(t) ==
    /\ variant \in {"ocr", "devnull"}
    /\ t \in Consumers
    /\ ppc \in {"join", "wait", "summary"}
    /\ pc[t] = "idle"
    /\ cur[t] = NoItem
    /\ pc' = [pc EXCEPT ![t] = "ready"]
    /\ UNCHANGED <<variant, retryVars, buffer, pages, cur, nextId, putLog, getLog, pipeVars>>

OcrGet(t) ==
    /\ variant \in {"ocr", "devnull"}
    /\ t \in Consumers
    /\ GetStep(t)
    /\ UNCHANGED <<variant, retryVars, pipeVars>>

\* base = batch_idx * BATCH_SIZE; results[pdf]["texts"][base + i] = text
\* (OcrStoreWide: a variant that writes one key more than the batch has
\* texts, against which the completion check is tested)
OcrStoreWide(texts, batch_idx, outs, z, m) ==
    [k \in (batch_idx * BATCH_SIZE)..(batch_idx * BATCH_SIZE + Len(outs)) |->
        PageText(z, m, k, outs[1])] @@ texts
OcrStore(texts, batch_idx, outs, z, m) ==
    [k \in (batch_idx * BATCH_SIZE)..(batch_idx * BATCH_SIZE + Len(outs) - 1) |->
        PageText(z, m, k, outs[k - batch_idx * BATCH_SIZE + 1])] @@ texts

\* ordered_text = [results[pdf]["texts"].get(i, "") for i in range(total_pages)]
Ordered(texts, total) == [i \in 1..total |-> IF (i - 1) \in DOMAIN texts THEN texts[i - 1] ELSE <<>>]

\* the text ocr.py writes: "\n".join(ordered_text).strip()
OcrJoinedText(texts) == Strip(Join(<<NL>>, texts))

\* with write_lock: the lock can be taken when no thread holds it
LockIgnored == TRUE
LockFree == ~write_lock

\* ocr_consumer after buffer.get(): ocr_batch sends one request per image
\* and returns one text per image; the thread then takes write_lock.
OcrEnter(t) ==
    /\ variant = "ocr"
    /\ t \in Consumers
    /\ ppc \in {"join", "wait", "summary"}
    /\ pc[t] = "idle"
    /\ cur[t] # NoItem
    /\ LockFree
    /\ write_lock' = TRUE
    /\ pc' = [pc EXCEPT ![t] = "locked"]
    /\ ocrCalls' = ocrCalls \cup {<<zi, cur[t].m, cur[t].batch_index * BATCH_SIZE + i - 1>> :
                                    i \in 1..cur[t].images}
    /\ UNCHANGED <<variant, retryVars, poolVars, buffer, pages, cur, nextId, putLog, getLog, zips, durVars,
                   procVars, known, rasterized, arrivals, cacheWrites, written, startLedger,
                   startCache, prevEnd, backend, backendChanged, results, to_process, prodAt,
                   total_target, summary>>

\* ocr_consumer, the block under write_lock: the texts ocr_batch returned
\* (the empty text where the request failed) are stored and, when the
\* document has all its pages, the cache file is written and results[pdf]
\* becomes the final record; the lock is released.
OcrConsume(t) ==
    /\ variant = "ocr"
    /\ t \in Consumers
    /\ ppc \in {"join", "wait", "summary"}
    /\ pc[t] = "locked"
    /\ LET item == cur[t]
           pdf == item.pdf
           base == item.batch_index * BATCH_SIZE
           old == IF pdf \in DOMAIN results THEN results[pdf].texts ELSE EmptyFn
       IN  \E outs \in [1..item.images -> {"ok", "empty"}] :
              LET texts == OcrStore(old, item.batch_index, outs, zi, item.m)
              IN  /\ arrivals' = arrivals \o [i \in 1..item.images |-> <<pdf, base + i - 1>>]
                  /\ IF Cardinality(DOMAIN texts) = item.total_pages
                     THEN LET text == OcrJoinedText(Ordered(texts, item.total_pages))
                          IN  /\ cacheFiles' = save_cache(CurYear, pdf,
                                                            CacheEntry(pdf, item.total_pages, text))
                              /\ results' = (pdf :> FinalResult(item.total_pages, text)) @@ results
                              /\ cacheWrites' = Bump(cacheWrites, pdf)
                              /\ written' = written \cup {<<CurYear, pdf>>}
                     ELSE /\ results' = (pdf :> OpenResult(item.total_pages, texts)) @@ results
                          /\ UNCHANGED <<cacheFiles, cacheWrites, written>>
    /\ cur' = [cur EXCEPT ![t] = NoItem]
    /\ pc' = [pc EXCEPT ![t] = "idle"]
    /\ write_lock' = FALSE
    /\ UNCHANGED <<variant, retryVars, poolVars, buffer, pages, nextId, putLog, getLog, zips, manifestFile,
                   persisted, procVars, ocrCalls, known, rasterized, startLedger, startCache,
                   prevEnd, backend, backendChanged, to_process, prodAt, total_target, summary>>

\* The process is killed while save_cache of ocr.py is writing the cache
\* file of a document whose last batch a consumer has just stored.
OcrCrashInCacheWrite(t) ==
    /\ variant = "ocr"
    /\ t \in Consumers
    /\ ppc \in {"join", "wait", "summary"}
    /\ pc[t] = "locked"
    /\ LET item == cur[t]
           old == IF item.pdf \in DOMAIN results THEN results[item.pdf].texts ELSE EmptyFn
           texts == OcrStore(old, item.batch_index, [i \in 1..item.images |-> "ok"], zi, item.m)
       IN  /\ Cardinality(DOMAIN texts) = item.total_pages
           /\ cacheFiles' = save_cache(CurYear, item.pdf, PartialEntry)
    /\ ppc' = "crashed"
    /\ UNCHANGED <<variant, retryVars, poolVars, bufVars, ocrVars, zips, manifestFile, persisted, run, err, zi, mi,
                   GLOBAL_FINISHED_FILES, manifest, pdf_buffers, page_tasks, histVars>>

\* process_zip of ocr.py: producer.join() returns
OcrJoin ==
    /\ variant \in {"ocr", "devnull"}
    /\ ppc = "join"
    /\ prodAt.st = "done"
    /\ ppc' = "wait"
    /\ UNCHANGED <<variant, retryVars, poolVars, bufVars, ocrVars, zips, durVars, run, err, zi, mi,
                   GLOBAL_FINISHED_FILES, manifest, pdf_buffers, page_tasks, histVars>>

\* while len(results) < total_target: time.sleep(0.5)
OcrWaitEnds ==
    /\ variant \in {"ocr", "devnull"}
    /\ ppc = "wait"
    /\ Cardinality(DOMAIN results) >= total_target
    /\ ppc' = "summary"
    /\ UNCHANGED <<variant, retryVars, poolVars, bufVars, ocrVars, zips, durVars, run, err, zi, mi,
                   GLOBAL_FINISHED_FILES, manifest, pdf_buffers, page_tasks, histVars>>

\* process_zip of ocr.py: the monthly summary lists the records of results
\* that are final (have no "texts")
OcrSummary ==
    /\ variant \in {"ocr", "devnull"}
    /\ ppc = "summary"
    /\ summary' = IF results = EmptyFn THEN summary
                  ELSE [st |-> "written", files |-> {n \in DOMAIN results : results[n].final}]
    /\ zi' = zi + 1
    /\ ppc' = "zip"
    /\ UNCHANGED <<variant, retryVars, poolVars, write_lock, bufVars, zips, durVars, run, err, mi, GLOBAL_FINISHED_FILES, manifest,
                   pdf_buffers, page_tasks, histVars, results, to_process, prodAt, total_target>>

\* The pipeline of ocr.py is started again after it ended.
OcrRestart ==
    /\ variant \in {"ocr", "devnull"}
    /\ ~Running
    /\ run < MaxRuns
    /\ run' = run + 1
    /\ ProcGone("boot")
    /\ err' = "none"
    /\ startLedger' = DurableLedger
    /\ startCache' = [k \in DOMAIN cacheFiles |-> cacheFiles[k].ok]
    /\ prevEnd' = ppc
    /\ buffer' = <<>>
    /\ pages' = 0
    /\ pc' = [t \in Threads |-> "idle"]
    /\ cur' = [t \in Threads |-> NoItem]
    /\ nextId' = 0
    /\ putLog' = <<>>
    /\ getLog' = <<>>
    /\ results' = EmptyFn
    /\ to_process' = <<>>
    /\ prodAt' = [i |-> 1, b |-> 0, st |-> "off"]
    /\ total_target' = 0
    /\ write_lock' = FALSE
    /\ backend' = EmptyFn
    /\ UNCHANGED <<variant, retryVars, zips, durVars, summary>>

InitOcr ==
    /\ variant = "ocr"
    /\ BufferInit
    /\ zips \in OcrScenarios
    /\ OcrOff
    /\ manifestFile = [y \in Years |-> NoFile]
    /\ persisted = {}
    /\ cacheFiles = EmptyFn
    /\ ProcInit
    /\ HistInit

NextOcr ==
    \/ OcrProcessZipBegin
    \/ OcrDiscover
    \/ OcrStart
    \/ \E ok \in BOOLEAN : ProdConvert(ok)
    \/ ProdEnd
    \/ ProdCallPut
    \/ ProdPut
    \/ \E t \in Consumers : OcrCallGet(t)
    \/ \E t \in Consumers : OcrGet(t)
    \/ \E t \in Consumers : OcrEnter(t)
    \/ \E t \in Consumers : OcrConsume(t)
    \/ \E t \in Consumers : OcrCrashInCacheWrite(t)
    \/ OcrJoin
    \/ OcrWaitEnds
    \/ OcrSummary
    \/ OcrFinish
    \/ OcrRestart

SpecOcr == InitOcr /\ [][NextOcr]_vars

\* -------------------------------------------------------- dev-null/ocr.py
\* save_cache of dev-null/ocr.py rejects a text of fewer than 10 characters
MIN_TEXT_LEN == 10

\* save_cache of dev-null/ocr.py: the cache files after the call
save_cache_unchecked(year, name, entry) == save_cache(year, name, entry)
save_cache_checked(year, name, entry) ==
    IF entry.text = <<>> \/ Len(Strip(entry.text)) < MIN_TEXT_LEN
    THEN cacheFiles
    ELSE save_cache(year, name, entry)

\* ocr_consumer of dev-null/ocr.py after buffer.get(): ocr_batch sends the
\* request for the one page of the item and returns None when it fails,
\* else the stripped text ("ok": a text of one character, "long": one of
\* MIN_TEXT_LEN characters, "empty": no text).  Only a non-empty text is
\* stored, under write_lock, and when the document then has a text for
\* every page save_cache is called with the joined, trimmed text; the
\* record results[pdf] keeps its "texts".  (The block under write_lock
\* is one step.)
DevConsume(t) ==
    /\ variant = "devnull"
    /\ t \in Consumers
    /\ ppc \in {"join", "wait", "summary"}
    /\ pc[t] = "idle"
    /\ cur[t] # NoItem
    /\ LET item == cur[t]
           pdf == item.pdf
           old == IF pdf \in DOMAIN results THEN results[pdf].texts ELSE EmptyFn
       IN  /\ ocrCalls' = ocrCalls \cup {<<zi, item.m, item.batch_index>>}
           /\ \E res \in Outcomes \cup {"long"} :
                 LET text == IF res = "long"
                             THEN [j \in 1..MIN_TEXT_LEN |-> Tok(zi, item.m, item.batch_index)]
                             ELSE PageText(zi, item.m, item.batch_index, res)
                     texts == (item.batch_index :> text) @@ old
                     full == Strip(Join(<<NL, NL>>,
                                 [i \in 1..item.total_pages |-> texts[i - 1]]))
                     files == save_cache_checked(CurYear, pdf,
                                                 CacheEntry(pdf, item.total_pages, full))
                 IN  /\ NoteOutcome(<<zi, item.m, item.batch_index>>, res)
                     /\ IF text = <<>>
                        THEN UNCHANGED <<results, cacheFiles, cacheWrites, written>>
                        ELSE /\ results' = (pdf :> OpenResult(item.total_pages, texts)) @@ results
                             /\ IF Cardinality(DOMAIN texts) = item.total_pages /\ files # cacheFiles
                                THEN /\ cacheFiles' = files
                                     /\ cacheWrites' = Bump(cacheWrites, pdf)
                                     /\ written' = written \cup {<<CurYear, pdf>>}
                                ELSE UNCHANGED <<cacheFiles, cacheWrites, written>>
    /\ cur' = [cur EXCEPT ![t] = NoItem]
    /\ UNCHANGED <<variant, retryVars, poolVars, buffer, pages, pc, nextId, putLog, getLog, zips,
                   manifestFile, persisted, procVars, known, rasterized, arrivals, startLedger,
                   startCache, prevEnd, to_process, prodAt, total_target, summary, write_lock>>

InitDev ==
    /\ variant = "devnull"
    /\ BufferInit
    /\ zips \in OcrScenarios
    /\ OcrOff
    /\ manifestFile = [y \in Years |-> NoFile]
    /\ persisted = {}
    /\ cacheFiles = EmptyFn
    /\ ProcInit
    /\ HistInit

NextDev ==
    \/ OcrProcessZipBegin
    \/ OcrDiscover
    \/ OcrStart
    \/ \E ok \in BOOLEAN : ProdConvert(ok)
    \/ ProdEnd
    \/ ProdCallPut
    \/ ProdPut
    \/ \E t \in Consumers : OcrCallGet(t)
    \/ \E t \in Consumers : OcrGet(t)
    \/ \E t \in Consumers : DevConsume(t)
    \/ OcrJoin
    \/ OcrWaitEnds
    \/ OcrSummary
    \/ OcrFinish
    \/ OcrRestart

SpecDev == InitDev /\ [][NextDev]_vars

\* ocr.py and dev-null/ocr.py with threads that are scheduled fairly and a
\* backend whose every call returns: the main thread, the producer and each
\* consumer eventually take a step they can take.  The kill of the process
\* and the next run are left without fairness: they need not happen.
SpecOcrFair ==
    (InitOcr \/ InitDev) /\ [][NextOcr \/ NextDev]_vars
    /\ WF_vars(OcrProcessZipBegin) /\ WF_vars(OcrDiscover) /\ WF_vars(OcrStart)
    /\ WF_vars(OcrJoin) /\ WF_vars(OcrWaitEnds) /\ WF_vars(OcrSummary) /\ WF_vars(OcrFinish)
    /\ WF_vars(\E ok \in BOOLEAN : ProdConvert(ok)) /\ WF_vars(ProdEnd)
    /\ WF_vars(ProdCallPut) /\ WF_vars(ProdPut)
    /\ \A t \in Consumers :
          /\ WF_vars(OcrCallGet(t)) /\ WF_vars(OcrGet(t))
          /\ WF_vars(OcrEnter(t)) /\ WF_vars(OcrConsume(t)) /\ WF_vars(DevConsume(t))

\* ---------------------------------------- the buffer under arbitrary callers
\* A producer calls put with a new item of 1..BATCH_SIZE pages
\* (pdf_producer: batch = ready_images[idx : idx + BATCH_SIZE], never empty).
CallPut(t) ==
    /\ variant \in {"buffer", "live"}
    /\ t \in Producers
    /\ pc[t] = "idle"
    /\ nextId < MaxItems
    /\ nextId' = IF variant = "live" THEN nextId ELSE nextId + 1
    /\ \E n \in 1..BATCH_SIZE :
          cur' = [cur EXCEPT ![t] = Item(nextId' + 1, "", 0, 0, n, n)]
    /\ pc' = [pc EXCEPT ![t] = "ready"]
    /\ UNCHANGED <<variant, retryVars, buffer, pages, putLog, getLog, pipeVars>>

Put(t) ==
    /\ variant \in {"buffer", "live"}
    /\ t \in Producers
    /\ PutStep(t)
    /\ UNCHANGED <<variant, retryVars, pipeVars>>

\* A consumer calls get (ocr_consumer: item = buffer.get(), in a loop)
CallGet(t) ==
    /\ variant \in {"buffer", "live"}
    /\ t \in Consumers
    /\ pc[t] = "idle"
    /\ pc' = [pc EXCEPT ![t] = "ready"]
    /\ cur' = [cur EXCEPT ![t] = NoItem]
    /\ UNCHANGED <<variant, retryVars, buffer, pages, nextId, putLog, getLog, pipeVars>>

Get(t) ==
    /\ variant \in {"buffer", "live"}
    /\ t \in Consumers
    /\ GetStep(t)
    /\ UNCHANGED <<variant, retryVars, pipeVars>>

InitBuffer == variant = "buffer" /\ BufferInit /\ PipeOff

NextBuffer ==
    \/ \E t \in Producers : CallPut(t)
    \/ \E t \in Producers : Put(t)
    \/ \E t \in Consumers : CallGet(t)
    \/ \E t \in Consumers : Get(t)

SpecBuffer == InitBuffer /\ [][NextBuffer]_vars

\* The same callers calling for ever: the producers keep calling put and the
\* consumers keep calling get, and every thread that can take a step
\* eventually takes one (weak fairness per thread and call).
InitLive == variant = "live" /\ BufferInit /\ PipeOff

Fairness ==
    /\ \A t \in Producers : WF_vars(CallPut(t)) /\ WF_vars(Put(t))
    /\ \A t \in Consumers : WF_vars(CallGet(t)) /\ WF_vars(Get(t))

SpecLive == InitLive /\ [][NextBuffer]_vars /\ Fairness

\* ------------------------------------------------- the ledger operations
\* add_manifest applied to any archive name and document name, in any order,
\* any number of times; known is the set of the pairs recorded.
InitLedger == variant = "ledger" /\ BufferOff /\ PipeOff

Record(zip_name, pdf_name) ==
    /\ variant = "ledger"
    /\ manifest' = add_manifest(manifest, zip_name, pdf_name)
    /\ known' = known \cup {<<zip_name, pdf_name>>}
    /\ UNCHANGED <<variant, retryVars, poolVars, bufVars, ocrVars, zips, durVars, run, ppc, err, zi, mi,
                   GLOBAL_FINISHED_FILES, pdf_buffers, page_tasks, ocrCalls, rasterized, arrivals,
                   cacheWrites, written, startLedger, startCache, prevEnd, backend,
                   backendChanged>>

SpecLedger ==
    InitLedger /\ [][\E k \in {"z1", "z2"}, n \in Names \cup {"c.pdf"} : Record(k, n)]_vars

\* ------------------------------------------ ocr_single_image of tqdm.py
\* max_retries = 3
max_retries == 3

\* except (requests.exceptions.ConnectionError, requests.exceptions.Timeout)
RetryableAny(o) == o.kind # "ok"
Retryable(o) == o.kind \in {"ConnectionError", "ConnectTimeout", "ReadTimeout"}

\* One pass of the loop for attempt in range(max_retries): the request is
\* sent; the call returns the stripped "response", or after a connection
\* error or timeout goes to the next pass (attempt < max_retries - 1) or
\* returns "", or after any other exception returns "".  (next(ollama_pool)
\* before the loop always gives the one endpoint of tqdm.py.)
\* What a request can come to: an answer whose "response" is one of a few
\* texts with and without surrounding whitespace (a missing "response" is
\* the empty text), a connection error or a timeout, or another error
\* (raise_for_status raises HTTPError, r.json() raises, the "response" is
\* not a string).
Request ==
    /\ variant = "retry"
    /\ ret.st = "running"
    /\ attempt < max_retries
    /\ \E o \in [kind : {"ok"},
                 text : {<<>>, <<NL>>, <<Tok(1, 1, 0)>>, <<NL, Tok(1, 1, 0)>>, <<Tok(1, 1, 0), NL>>,
                         <<NL, Tok(1, 1, 0), NL, Tok(1, 1, 1), NL>>}]
              \cup [kind : {"ConnectionError", "ConnectTimeout", "ReadTimeout",
                            "HTTPError", "JSONDecodeError", "AttributeError"}, text : {<<>>}] :
          /\ outcomes' = Append(outcomes, o)
          /\ IF o.kind = "ok"
             THEN /\ ret' = [st |-> "returned", val |-> Strip(o.text)]
                  /\ attempt' = attempt
             ELSE IF Retryable(o) /\ attempt < max_retries - 1
             THEN /\ attempt' = attempt + 1
                  /\ ret' = ret
             ELSE /\ ret' = [st |-> "returned", val |-> <<>>]
                  /\ attempt' = attempt
    /\ UNCHANGED <<variant, bufVars, pipeVars>>

\* one call, on any sequence of outcomes
InitRetry == variant = "retry" /\ BufferOff /\ PipeOff

SpecRetry == InitRetry /\ [][Request]_vars

\* ------------------------------------------------------------- tqdm.py
\* process_pdf_from_zip of tqdm.py up to "if full_text": the two skip checks
\* (a document found in the cache is recorded in the ledger), the extraction
\* of the member (nothing catches what a corrupt one raises), the size
\* check, and the loop over the pages: convert_from_path of one page raises
\* and the loop is left by break, or the page's text is asked of
\* ocr_single_image, which returns the empty text where the request failed,
\* and the text is appended to texts when it is not empty.  pdf_buffers
\* holds the locals total_pages and texts, and the page the loop stopped at.
TqdmDocument ==
    /\ variant = "tqdm"
    /\ ppc = "scan"
    /\ mi <= Len(CurZip.members)
    /\ LET mem == CurZip.members[mi]
           name == mem.name
       IN  /\ known' = IF IsKnown(CurYear, CurZip.key, name) THEN known \cup {<<zi, mi>>} ELSE known
           /\ IF in_manifest(manifest, CurZip.key, name) \/ CacheValid(CurYear, name)
                 \/ mem.corrupt \/ Rejects(mem)
              THEN /\ manifest' = IF ~in_manifest(manifest, CurZip.key, name) /\ CacheValid(CurYear, name)
                                  THEN add_manifest(manifest, CurZip.key, name)
                                  ELSE manifest
                   /\ IF ~BatchSkips(CurYear, CurZip.key, name) /\ mem.corrupt
                      THEN err' = "extract" /\ ppc' = "dead"
                      ELSE err' = err /\ ppc' = "docsave"
                   /\ UNCHANGED <<pdf_buffers, rasterized, ocrCalls, backend, backendChanged>>
              ELSE \E outs \in [1..mem.pages -> Outcomes \cup {"raise"}] :
                      LET raised == {i \in 1..mem.pages : outs[i] = "raise"}
                          stop == IF raised = {} THEN mem.pages + 1
                                  ELSE CHOOSE i \in raised : \A j \in raised : i <= j
                          keys == {<<zi, mi, i - 1>> : i \in 1..(stop - 1)}
                          answers == [i \in 1..(stop - 1) |-> PageText(zi, mi, i - 1, outs[i])]
                          HasText(t) == t # <<>>
                          texts == SelectSeq(answers, HasText)
                      IN  /\ rasterized' = rasterized \cup {<<zi, mi>>}
                          /\ ocrCalls' = ocrCalls \cup keys
                          /\ backend' = [k \in keys |-> outs[k[3] + 1]] @@ backend
                          /\ backendChanged' = (backendChanged \/
                                \E k \in keys \cap DOMAIN backend : backend[k] # outs[k[3] + 1])
                          /\ pdf_buffers' = (name :> [total |-> mem.pages, texts |-> texts,
                                                      batch_start |-> stop])
                          /\ ppc' = IF BatchJoinedText(texts) # <<>> THEN "commit" ELSE "docsave"
                          /\ UNCHANGED <<err, manifest>>
    /\ UNCHANGED <<variant, retryVars, poolVars, bufVars, ocrVars, zips, durVars, run, zi, mi,
                   GLOBAL_FINISHED_FILES, page_tasks, arrivals, cacheWrites, written,
                   startLedger, startCache, prevEnd>>

\* process_pdf_from_zip of tqdm.py, the block under "if full_text":
\* save_cache, add_manifest
TqdmCommit ==
    /\ variant = "tqdm"
    /\ ppc = "commit"
    /\ cacheFiles' = save_cache(CurYear, BatchName,
                CacheEntry(BatchName, BatchState.total, BatchJoinedText(BatchState.texts)))
    /\ cacheWrites' = Bump(cacheWrites, BatchName)
    /\ written' = written \cup {<<CurYear, BatchName>>}
    /\ manifest' = add_manifest(manifest, CurZip.key, BatchName)
    /\ ppc' = "docsave"
    /\ UNCHANGED <<variant, retryVars, poolVars, bufVars, ocrVars, zips, manifestFile, persisted, run, err, zi, mi,
                   GLOBAL_FINISHED_FILES, pdf_buffers, page_tasks, ocrCalls, known, rasterized,
                   arrivals, startLedger, startCache, prevEnd, backend, backendChanged>>

\* process_zip of tqdm.py: save_manifest after process_pdf_from_zip has
\* returned, for every .pdf member; after the last member process_zip
\* returns (every archive has a .pdf member)
TqdmSave ==
    /\ variant = "tqdm"
    /\ ppc = "docsave"
    /\ manifestFile' = save_manifest(CurYear, manifest)
    /\ persisted' = persisted \cup DurableLedger'
    /\ mi' = mi + 1
    /\ IF mi < Len(CurZip.members)
       THEN ppc' = "scan" /\ zi' = zi
       ELSE ppc' = "zip" /\ zi' = zi + 1
    /\ UNCHANGED <<variant, retryVars, poolVars, bufVars, ocrVars, zips, cacheFiles, run, err,
                   GLOBAL_FINISHED_FILES, manifest, pdf_buffers, page_tasks, histVars>>

InitTqdm == variant = "tqdm" /\ BufferOff /\ PipeInit

NextTqdm ==
    \/ BatchBoot
    \/ ProcessZipBegin
    \/ TqdmDocument
    \/ TqdmCommit
    \/ BatchCrashInCacheWrite
    \/ TqdmSave
    \/ CrashInSave
    \/ Finish
    \/ Crash
    \/ Restart

SpecTqdm == InitTqdm /\ [][NextTqdm]_vars

\* ------------------------------------------- several programs in one check
\* main.py or batch.py
SpecMainBatch == (InitMain \/ InitBatch) /\ [][NextMain \/ NextBatch]_vars

\* ocr.py, main.py or parallel.py
SpecAssemble ==
    (InitOcr \/ InitMain \/ InitParallel) /\ [][NextOcr \/ NextMain \/ NextParallel]_vars

\* main.py or parallel.py
SpecMainParallel == (InitMain \/ InitParallel) /\ [][NextMain \/ NextParallel]_vars

\* =================================================================== claims
NameOf(c) == Member(c[1], c[2]).name
CompleteAtStart == {k \in DOMAIN startCache : startCache[k]}
YearOf(c) == zips[c[1]].year

\* C1: in every reachable state of the PageBuffer the tracked page count
\* satisfies 0 <= pages <= max_pages.
C1_PagesWithinCapacity ==
    variant = "buffer" => (0 <= pages /\ pages <= max_pages)

\* the texts page i (from 0) of the document `name` of year `year` can have:
\* the empty text, or the text of page i of an archive member of that name
SlotTexts(year, name, i) ==
    {<<>>} \cup { <<Tok(z, m, i)>> : <<z, m>> \in
                    { zm \in (1..Len(zips)) \X (1..MAX_PAGES_PER_DOC) :
                        /\ zips[zm[1]].year = year
                        /\ zm[2] <= Len(zips[zm[1]].members)
                        /\ Member(zm[1], zm[2]).name = name } }

C11_PutGetGuardsAndCounts ==
    [][variant = "buffer" =>
        /\ Len(buffer') > Len(buffer) =>
              /\ pages < max_pages
              /\ \E t \in Producers :
                    /\ buffer' = Append(buffer, cur[t])
                    /\ pages' = pages + cur[t].images
        /\ Len(buffer') < Len(buffer) =>
              /\ buffer # <<>>
              /\ buffer' = Tail(buffer)
              /\ pages' = pages - Head(buffer).images
        /\ Len(buffer') = Len(buffer) => (buffer' = buffer /\ pages' = pages)]_vars

\* a put of a several-page item went through below the capacity and a get
\* took an item out again
C11_Witness ==
    /\ variant = "buffer"
    /\ \E i \in 1..Len(putLog) : putLog[i].images = BATCH_SIZE
    /\ Len(getLog) >= 1
    /\ buffer # <<>>
    /\ pages >= 1

\* a thread waits only while its condition is false: a producer while the
\* buffer is full, a consumer while the queue is empty
WaitersAreBlocked ==
    /\ \A t \in Producers : pc[t] = "wait" => PutBlocked
    /\ \A t \in Consumers : pc[t] = "wait" => GetBlocked

\* C12 as stated: under weak fairness every producer blocked in put and
\* every consumer blocked in get eventually completes its call.
C12_BlockedCallCompletes ==
    \A t \in Threads : (variant = "live" /\ pc[t] = "wait") ~> (pc[t] = "idle")

\* C12, amended: no wake-up is lost and the buffer does not deadlock: a
\* thread waits only while its condition is false, and under weak fairness
\* every waiting thread is woken again to test its condition.
C12_NoLostWakeup ==
    /\ [](variant = "live" => WaitersAreBlocked)
    /\ \A t \in Threads : (variant = "live" /\ pc[t] = "wait") ~> (pc[t] = "ready")

\* both producers wait on the full buffer
C12_Witness ==
    /\ variant = "live"
    /\ \A t \in Producers : pc[t] = "wait"
    /\ PutBlocked

\* the members <<z, m>> of the archives, and those whose base name no other
\* member has
Members == { zm \in (1..Len(zips)) \X (1..MAX_PAGES_PER_DOC) : zm[2] <= Len(zips[zm[1]].members) }
NameIsUnique(zm) == \A o \in Members : NameOf(o) = NameOf(zm) => o = zm

\* C13: a document whose page count is unreadable or above MAX_PAGES is
\* never rasterized, no request is sent for it, it is in no cache file, no
\* ledger and not in the global index, and no run takes it for finished; a
\* document of exactly MAX_PAGES pages that is not finished (and has no
\* unreadable cache file) is rasterized when the loop over the members
\* passes it (main.py and batch.py).
C13_RejectedLeavesNoTrace ==
    variant \in {"main", "batch"} =>
        \A zm \in Members :
            LET mem == Member(zm[1], zm[2])
            IN  /\ (NameIsUnique(zm) /\ (~mem.readable \/ mem.pages > MAX_PAGES)) =>
                      /\ zm \notin rasterized
                      /\ \A c \in ocrCalls : <<c[1], c[2]>> # zm
                      /\ ~CacheExists(YearOf(zm), mem.name)
                      /\ mem.name \notin GLOBAL_FINISHED_FILES
                      /\ mem.name \notin FilesOf(manifest)
                      /\ \A l \in DurableLedger : l[3] # mem.name
                      /\ zm \notin known
                /\ (mem.readable /\ mem.pages = MAX_PAGES /\ Running /\ zi = zm[1] /\ mi > zm[2]
                       /\ zm \notin known
                       /\ (CacheExists(YearOf(zm), mem.name) => CacheValid(YearOf(zm), mem.name))) =>
                      zm \in rasterized

\* a second process passed the oversized document again and rasterized the
\* document of exactly MAX_PAGES pages that the first one had not finished
C13_Witness ==
    /\ variant \in {"main", "batch"}
    /\ run > 1
    /\ zi = 1
    /\ mi > 2
    /\ Member(1, 1).pages > MAX_PAGES
    /\ Member(1, 2).pages = MAX_PAGES
    /\ <<1, 2>> \in rasterized

\* C14: load_manifest returns the persisted ledger when the file parses and
\* the empty ledger when it is missing or does not parse, and never raises:
\* processing of the archive continues (main.py, parallel.py, batch.py).
C14_LoadFailsOpen ==
    variant \in {"main", "parallel", "batch"} =>
        /\ err # "manifest"
        /\ (ppc = "scan" /\ mi = 1) =>
              manifest = IF manifestFile[CurYear].st = "ok" THEN manifestFile[CurYear].zips
                         ELSE EmptyManifest

\* C15: over load, record and persist operations, runs, crashes and
\* restarts, a document name once persisted for an archive is in every
\* later persisted ledger of its year.
C15_LedgerOnlyGrows ==
    \A l \in persisted : manifestFile[l[1]].st = "ok" => l \in DurableLedger

C17_SaveIsAtomic ==
    variant \in {"main", "parallel", "batch"} =>
        \A y \in Years : manifestFile[y].st # "corrupt"

\* C18: the cache entry of a document is written, and the document recorded
\* in the ledger, only after every page of it has produced a result: in
\* main.py every slot of the document was filled, in batch.py the loop over
\* the batches ran to its end, also when a request raised.
C18_CommitOnlyWhenComplete ==
    /\ variant = "main" =>
          \A n \in DOMAIN cacheWrites :
              \A i \in 0..(pdf_buffers[n].total - 1) : InSeq(<<n, i>>, arrivals)
    /\ (variant = "batch" /\ ppc = "commit") => BatchState.batch_start > BatchState.total

\* C19: the cache entry of a document is written before the document is
\* recorded in the ledger: in every state, after a crash too, every name of
\* the ledger in memory and of the durable ledger has a cache file.
C19_LedgerImpliesCache ==
    variant \in {"main", "parallel", "batch"} =>
        /\ ppc \in {"scan", "pool", "batches", "commit", "unwind", "save"} =>
              \A n \in FilesOf(manifest) : CacheExists(CurYear, n)
        /\ \A l \in DurableLedger : CacheExists(l[1], l[3])

\* after a crash the second process has loaded a ledger that names a
\* document and has recorded another one
C19_Witness ==
    /\ variant \in {"main", "batch"}
    /\ run > 1
    /\ prevEnd = "crashed"
    /\ startLedger # {}
    /\ ppc = "save"
    /\ Cardinality(FilesOf(manifest)) >= 2

\* C20: a cache file that exists but does not parse is treated as absent:
\* the run does not abort on it, and a document whose cache file did not
\* parse when the process started is processed again when the loop over the
\* members passes it (main.py, parallel.py, batch.py; ocr.py: no abort).
C20_CorruptCacheIsAbsent ==
    /\ err # "cache"
    /\ variant \in {"main", "parallel", "batch"} =>
          \A zm \in Members :
              LET key == <<YearOf(zm), NameOf(zm)>>
                  mem == Member(zm[1], zm[2])
              IN  (/\ key \in DOMAIN startCache
                   /\ ~startCache[key]
                   /\ NameIsUnique(zm)
                   /\ mem.readable
                   /\ mem.pages <= MAX_PAGES
                   /\ Running
                   /\ zi = zm[1]
                   /\ mi > zm[2]) => zm \in rasterized

\* C9: get returns the items in exactly the order in which their put calls
\* enqueued them: the items returned so far are the first items enqueued.
C9_GetOrderIsPutOrder ==
    variant = "buffer" =>
        /\ Len(getLog) <= Len(putLog)
        /\ \A i \in 1..Len(getLog) : getLog[i] = putLog[i]

\* two producers and two consumers took part, and the items were enqueued in
\* another order than they were created
C9_Witness ==
    /\ variant = "buffer"
    /\ Len(getLog) >= 3
    /\ getLog[1].id = 2
    /\ \A t \in Consumers : cur[t] # NoItem

\* C10: every item whose put has completed is queued or was returned by
\* exactly one get, never both and never twice, and get returns no item that
\* was not put.
C10_EachItemReturnedOnce ==
    variant = "buffer" =>
        /\ \A i \in 1..Len(putLog) :
              Occurrences(getLog, putLog[i]) + Occurrences(buffer, putLog[i]) = 1
        /\ \A j \in 1..Len(getLog) : InSeq(getLog[j], putLog)
        /\ \A t \in Consumers : cur[t] # NoItem => InSeq(cur[t], getLog)

\* every item was put and every item was returned, by both consumers
C10_Witness ==
    /\ variant = "buffer"
    /\ Len(putLog) = MaxItems
    /\ Len(getLog) = MaxItems
    /\ \A t \in Consumers : cur[t] # NoItem

\* C5: after a crash of main.py's process_zip and a restart, no backend
\* request is sent for a document whose cache entry was written completely
\* before the crash, also when the ledger was never persisted.
C5_NoRepayAfterCrash ==
    (variant = "main" /\ run > 1 /\ prevEnd = "crashed") =>
        \A c \in ocrCalls : <<YearOf(c), NameOf(c)>> \notin CompleteAtStart

\* the first process crashed after it wrote a cache entry and before it saved
\* the ledger; the second one skipped that document, sent requests for
\* another one and ended
C5_Witness ==
    /\ variant = "main"
    /\ run > 1
    /\ prevEnd = "crashed"
    /\ CompleteAtStart # {}
    /\ startLedger = {}
    /\ known # {}
    /\ ocrCalls # {}
    /\ ppc = "done"

\* C6: in one run of main.py's process_zip every (document, page) slot is
\* filled at most once, and the cache entry of every dispatched document is
\* written exactly once.
C6_FillOnceCommitOnce ==
    variant = "main" =>
        /\ \A i \in 1..Len(arrivals) : Occurrences(arrivals, arrivals[i]) = 1
        /\ \A n \in DOMAIN cacheWrites : cacheWrites[n] <= 1
        /\ ppc = "save" => \A n \in DOMAIN pdf_buffers : Count(cacheWrites, n) = 1

\* C7: in main.py's process_zip a document one of whose pages failed or came
\* back empty still completes: when the archive's processing has ended, its
\* slot holds the empty text, its cache entry is written and it is in the
\* ledger.
C7_GapsStillCommit ==
    (variant = "main" /\ ppc \in {"save", "dead"}) =>
        \A k \in 1..Len(page_tasks) :
            page_tasks[k].res \in {"empty", "fail"} =>
                /\ CacheValid(CurYear, page_tasks[k].pdf_name)
                /\ in_manifest(manifest, CurZip.key, page_tasks[k].pdf_name)

\* C3: a document that is in the global index, in the ledger of its archive
\* or in the cache when it is discovered is never rasterized, and no backend
\* request is sent for any of its pages (main.py and batch.py).
C3_KnownNeverDispatched ==
    \A zm \in known :
        /\ zm \notin rasterized
        /\ \A c \in ocrCalls : <<c[1], c[2]>> # zm

\* a process found one document finished and sent requests for another one
C3_Witness ==
    /\ known # {}
    /\ ocrCalls # {}
    /\ ppc = "done"

\* C4: a second run over the same archives, after a run that ended normally
\* and with the backend answering as before, sends no request for a document
\* that is in the ledger, rewrites no existing cache entry, and leaves the
\* document names of the ledger as they were.
C4_RerunIdempotent ==
    (run > 1 /\ prevEnd = "done" /\ ~backendChanged) =>
        /\ \A c \in ocrCalls : <<YearOf(c), zips[c[1]].key, NameOf(c)>> \notin startLedger
        /\ written \cap DOMAIN startCache = {}
        /\ ppc = "done" => DurableLedger = startLedger

\* C8: a failed backend request for one page never leaves the archive's
\* processing as an error (main.py and parallel.py): the process is not
\* ended by it.
C8_FailureIsolated ==
    ~(ppc \in {"unwind", "dead"} /\ err = "ocr")

\* C21: within one process of main.py a document goes from its discovery to
\* skipped, to rejected, or through dispatch and assembly to committed, and
\* no other way: a document is dispatched only at its discovery, when neither
\* skip check nor the size check holds; a slot is written only for a
\* dispatched document that is not committed; a commit follows slot writes
\* and is final; and no document is dispatched after a document of its name,
\* of this or an earlier archive of the run, was committed or skipped.
C21_DocumentLifecycle ==
    [][variant = "main" =>
        LET Discovered(zm) == \/ zm[1] < zi
                              \/ zm[1] = zi /\ zm[2] < mi /\ ppc \notin {"boot", "zip", "crashed"}
            Skipped(zm) == Discovered(zm) /\ zm \notin rasterized /\ ~Rejects(Member(zm[1], zm[2]))
            Committed(zm) == zm \in rasterized /\ <<YearOf(zm), NameOf(zm)>> \in written
            Dispatched(n) == \E zm \in rasterized : zm[1] = zi /\ NameOf(zm) = n
        IN  /\ \A zm \in rasterized' \ rasterized :
                  /\ ppc = "scan"
                  /\ zm = <<zi, mi>>
                  /\ ~Skips(CurYear, NameOf(zm))
                  /\ ~Rejects(Member(zm[1], zm[2]))
                  /\ \A o \in Members : NameOf(o) = NameOf(zm) => (~Skipped(o) /\ ~Committed(o))
            /\ Len(arrivals') > Len(arrivals) =>
                  /\ Dispatched(arrivals'[Len(arrivals')][1])
                  /\ Count(cacheWrites, arrivals'[Len(arrivals')][1]) = 0
            /\ \A n \in DOMAIN cacheWrites' :
                  cacheWrites'[n] > Count(cacheWrites, n) =>
                      /\ Count(cacheWrites, n) = 0
                      /\ Dispatched(n)
                      /\ \E i \in 1..Len(arrivals') : arrivals'[i][1] = n]_vars

\* C22: when process_zip has returned (main.py and batch.py), the durable
\* ledger of the archive's year is a complete file that lists, under the
\* archive, every document whose cache entry was written while the archive
\* was processed.
C22_LedgerPersistedOnReturn ==
    (variant \in {"main", "batch"} /\ ppc \in {"zip", "done"} /\ zi > 1) =>
        /\ manifestFile[zips[zi - 1].year].st = "ok"
        /\ \A n \in DOMAIN cacheWrites :
              <<zips[zi - 1].year, zips[zi - 1].key, n>> \in DurableLedger

\* process_zip has returned for the second of two archives of one year, in
\* which it committed a document, and the ledger names both archives
C22_Witness ==
    /\ variant \in {"main", "batch"}
    /\ ppc = "zip"
    /\ zi = 3
    /\ zips[1].year = zips[2].year
    /\ DOMAIN cacheWrites # {}
    /\ DOMAIN manifestFile[zips[2].year].zips = {"z1", "z2"}

\* C23: with N = len(OLLAMA_URLS) endpoints, the k-th call of
\* next(ollama_pool) of a process (k from 0, in the order the calls of the
\* concurrent workers take effect) returns OLLAMA_URLS[k mod N], and any N
\* consecutive calls return every endpoint exactly once (main.py and
\* parallel.py).
C23_PoolIsRoundRobin ==
    variant \in {"main", "parallel"} =>
        LET N == Len(OLLAMA_URLS)
        IN  /\ \A k \in 1..Len(poolLog) : poolLog[k] = OLLAMA_URLS[((k - 1) % N) + 1]
            /\ \A k \in 1..(Len(poolLog) - N + 1) :
                  /\ {poolLog[j] : j \in k..(k + N - 1)} = {OLLAMA_URLS[i] : i \in 1..N}
                  /\ \A i, j \in k..(k + N - 1) : poolLog[i] = poolLog[j] => i = j
            /\ ollama_pool = Len(poolLog) % N

\* the workers called next more often than there are endpoints, in the
\* second archive of a process too, while MAX_WORKERS requests were under way
C23_Witness ==
    /\ variant \in {"main", "parallel"}
    /\ Len(poolLog) > Len(OLLAMA_URLS)
    /\ NumRunning = MAX_WORKERS
    /\ ppc = "pool"

\* C24: the text of every committed cache entry is the per-page texts of the
\* document in index order, joined by a blank line (two newline characters),
\* with leading and trailing whitespace trimmed (ocr.py, parallel.py and
\* main.py).
C24_JoinedByBlankLineAndTrimmed ==
    \A key \in DOMAIN cacheFiles :
        cacheFiles[key].ok =>
            \E slots \in [1..cacheFiles[key].pages -> UNION {SlotTexts(key[1], key[2], i) :
                                                             i \in 0..(cacheFiles[key].pages - 1)}] :
                /\ \A i \in 1..cacheFiles[key].pages : slots[i] \in SlotTexts(key[1], key[2], i - 1)
                /\ cacheFiles[key].text = Strip(Join(<<NL, NL>>, slots))

\* C25: a result for page i of a document for which a result for page i
\* was received before is ignored: the slot keeps its first value, the
\* number of completed slots does not change and nothing is committed
\* (process_zip of main.py, ocr_consumer of ocr.py).
C25_DuplicateResultIgnored ==
    [][\A j \in (Len(arrivals) + 1)..Len(arrivals') :
          LET n == arrivals'[j][1]
              i == arrivals'[j][2]
          IN  InSeq(arrivals'[j], arrivals) =>
                  /\ variant = "main" =>
                        /\ pdf_buffers'[n].texts[i + 1] = pdf_buffers[n].texts[i + 1]
                        /\ DoneCount(pdf_buffers'[n].texts) = DoneCount(pdf_buffers[n].texts)
                        /\ cacheWrites' = cacheWrites
                  /\ variant = "ocr" => results'[n] = results[n]]_vars

\* C26: the slot writes, the completion check and the commit of a document,
\* and the record and persist operations on the ledger, are never executed
\* by two threads at the same time.  ocr.py: at most one consumer is inside
\* the block under write_lock, and while the threads run, results and the
\* cache change only in a step of the consumer that holds the lock.
\* main.py: a step of a pool thread (a task starts or finishes) leaves the
\* slot arrays, the cache, the ledger and the global index as they are.
C26_AssemblySerialized ==
    /\ [](variant = "ocr" =>
            /\ Cardinality({t \in Consumers : pc[t] = "locked"}) <= 1
            /\ write_lock <=> (\E t \in Consumers : pc[t] = "locked"))
    /\ [][/\ (variant = "ocr" /\ ppc \in {"join", "wait", "summary"}
                 /\ (results' # results \/ cacheFiles' # cacheFiles)) =>
                write_lock /\ \E t \in Consumers : pc[t] = "locked"
          /\ (variant = "main" /\ \E k \in 1..Len(page_tasks) :
                                     /\ Len(page_tasks') = Len(page_tasks)
                                     /\ page_tasks'[k].st \in {"running", "finished"}
                                     /\ page_tasks'[k].st # page_tasks[k].st) =>
                UNCHANGED <<pdf_buffers, cacheFiles, manifest, manifestFile, GLOBAL_FINISHED_FILES>>]_vars

\* one consumer of ocr.py is inside the block under write_lock while the
\* other one holds a batch of the same document and waits for the lock
C26_Witness ==
    /\ variant = "ocr"
    /\ pc["c1"] = "locked"
    /\ pc["c2"] = "idle"
    /\ cur["c2"] # NoItem
    /\ cur["c2"].pdf = cur["c1"].pdf

\* C27: a corrupt archive member, one whose extraction raises, is skipped
\* and does not abort the processing of its archive: no run ends with the
\* extraction error, and when process_zip has returned every sound sibling
\* (readable, within the page limit, of a name of its own, not finished
\* before) was taken for processing and the ledger of the archive's year
\* was persisted (ocr.py, main.py and parallel.py).
C27_CorruptMemberSkipped ==
    variant \in {"ocr", "main", "parallel"} =>
        /\ err # "extract"
        /\ (ppc \in {"zip", "done"} /\ zi > 1) =>
              \A zm \in Members :
                  (/\ zm[1] = zi - 1
                   /\ \E o \in Members : o[1] = zm[1] /\ Member(o[1], o[2]).corrupt
                   /\ ~Member(zm[1], zm[2]).corrupt
                   /\ NameIsUnique(zm)
                   /\ zm \notin known
                   /\ ~CacheExists(YearOf(zm), NameOf(zm)) \/ <<YearOf(zm), NameOf(zm)>> \in written) =>
                      IF variant = "ocr"
                      THEN OcrRejects(Member(zm[1], zm[2])) \/ InSeq(zm[2], to_process)
                      ELSE /\ Rejects(Member(zm[1], zm[2])) \/ zm \in rasterized
                           /\ manifestFile[YearOf(zm)].st = "ok"

\* C28: when process_zip has returned for an archive, every document of the
\* archive that has a valid cache entry is listed under the archive in the
\* durable ledger of its year, also a document whose cache entry was written
\* by an earlier process that was killed before it persisted the ledger
\* (main.py, parallel.py and batch.py).
C28_CachedImpliesLedgered ==
    (variant \in {"main", "parallel", "batch"} /\ ppc \in {"zip", "done"} /\ zi > 1) =>
        \A zm \in Members :
            (zm[1] = zi - 1 /\ CacheValid(YearOf(zm), NameOf(zm))) =>
                <<YearOf(zm), zips[zm[1]].key, NameOf(zm)>> \in DurableLedger

\* C29: process_zip of ocr.py leaves its wait loop only after every
\* document accepted for processing has been committed to the cache, and the
\* monthly summary it then writes has one record for every cached and every
\* newly processed document of the archive.
C29_SummaryAfterDrain ==
    variant = "ocr" =>
        /\ ppc = "summary" =>
              \A i \in 1..Len(to_process) : CacheValid(CurYear, Member(zi, to_process[i]).name)
        /\ (ppc \in {"zip", "done"} /\ zi > 1) =>
              /\ \A i \in 1..Len(to_process) :
                    /\ CacheValid(zips[zi - 1].year, Member(zi - 1, to_process[i]).name)
                    /\ summary.st = "written"
                    /\ Member(zi - 1, to_process[i]).name \in summary.files
              /\ \A zm \in known : zm[1] = zi - 1 => NameOf(zm) \in summary.files

\* C30: ocr_single_image of tqdm.py sends at most max_retries = 3 requests
\* for a page, sends another one only after a connection error or a timeout,
\* returns the stripped text of the first answer, returns the empty text
\* after the third failed attempt and at once after any other error, and
\* always returns a text.
C30_RetryAtMostThrice ==
    variant = "retry" =>
        LET n == Len(outcomes)
        IN  /\ n <= max_retries
            /\ \A i \in 1..(n - 1) :
                  outcomes[i].kind \in {"ConnectionError", "ConnectTimeout", "ReadTimeout"}
            /\ IF n = 0 THEN ret.st = "running"
               ELSE IF outcomes[n].kind = "ok"
               THEN ret = [st |-> "returned", val |-> Strip(outcomes[n].text)]
               ELSE IF outcomes[n].kind \in {"HTTPError", "JSONDecodeError", "AttributeError"}
                       \/ n = max_retries
               THEN ret = [st |-> "returned", val |-> <<>>]
               ELSE ret.st = "running" /\ attempt = n
            /\ ret.st = "returned" =>
                  /\ ret.val \in Seq({NL, Tok(1, 1, 0), Tok(1, 1, 1)})
                  /\ ret.val # <<>> => (Head(ret.val) # NL /\ ret.val[Len(ret.val)] # NL)

\* the call returned the text of its third request, which came with
\* whitespace around it, after two requests that timed out or found no
\* connection
C30_Witness ==
    /\ variant = "retry"
    /\ Len(outcomes) = max_retries
    /\ outcomes[1].kind = "ConnectionError"
    /\ outcomes[2].kind = "ReadTimeout"
    /\ outcomes[3].kind = "ok"
    /\ Len(outcomes[3].text) > Len(ret.val)
    /\ Len(ret.val) = 3

\* C31: process_zip of tqdm.py persists the ledger after every document, so
\* at any point where the process can be killed the durable ledger lacks at
\* most one document (of a name of its own) whose cache entry has been
\* written; and the process started after a kill sends no request for a
\* document whose cache entry was complete, and has recorded it in the ledger
\* when the loop over the members has passed it.
C31_LedgerLagsByOneDocument ==
    variant = "tqdm" =>
        /\ Cardinality({zm \in Members :
                          /\ NameIsUnique(zm)
                          /\ CacheValid(YearOf(zm), NameOf(zm))
                          /\ <<YearOf(zm), zips[zm[1]].key, NameOf(zm)>> \notin DurableLedger}) <= 1
        /\ (run > 1 /\ prevEnd = "crashed") =>
              /\ \A c \in ocrCalls : <<YearOf(c), NameOf(c)>> \notin CompleteAtStart
              /\ \A zm \in Members :
                    (/\ <<YearOf(zm), NameOf(zm)>> \in CompleteAtStart
                     /\ ppc \in {"scan", "commit", "docsave"}
                     /\ zi = zm[1]
                     /\ mi > zm[2]) => in_manifest(manifest, zips[zm[1]].key, NameOf(zm))

\* C32: in process_pdf_from_zip of tqdm.py every page of a document whose
\* page loop was entered contributes one segment, the empty text where its
\* request failed, gave no text or was not sent: when process_pdf_from_zip
\* has returned, the document is committed (cached and in the ledger), also
\* when all its pages failed, and its text is the `pages` segments in page
\* order, joined and trimmed.
C32_EveryPageOneSegment ==
    (variant = "tqdm" /\ ppc = "docsave" /\ <<zi, mi>> \in rasterized) =>
        LET slots == [i \in 1..BatchState.total |->
                        IF <<zi, mi, i - 1>> \in DOMAIN backend
                        THEN PageText(zi, mi, i - 1, backend[<<zi, mi, i - 1>>])
                        ELSE <<>>]
        IN  /\ CacheValid(CurYear, BatchName)
            /\ cacheFiles[<<CurYear, BatchName>>].pages = BatchState.total
            /\ cacheFiles[<<CurYear, BatchName>>].text = BatchJoinedText(slots)
            /\ in_manifest(manifest, CurZip.key, BatchName)

\* C33: in dev-null/ocr.py the cache entry of a document is written only if
\* every page of it returned a non-empty text in this run and the joined,
\* trimmed text has at least 10 characters: the entry written holds that
\* text, and no entry is written in the run for a document one of whose
\* requests failed or gave no text, or whose text is shorter.
C33_CacheOnlyCompleteAndLongEnough ==
    variant = "devnull" =>
        /\ \A k \in DOMAIN backend :
              backend[k] \in {"fail", "empty"} => <<YearOf(k), NameOf(k)>> \notin written
        /\ \A zm \in Members :
              <<YearOf(zm), NameOf(zm)>> \in written =>
                  LET entry == cacheFiles[<<YearOf(zm), NameOf(zm)>>]
                      n == Member(zm[1], zm[2]).pages
                      answers == [i \in 1..n |->
                                    IF backend[<<zm[1], zm[2], i - 1>>] = "long"
                                    THEN [j \in 1..MIN_TEXT_LEN |-> Tok(zm[1], zm[2], i - 1)]
                                    ELSE <<Tok(zm[1], zm[2], i - 1)>>]
                  IN  /\ \A i \in 0..(n - 1) :
                            /\ <<zm[1], zm[2], i>> \in DOMAIN backend
                            /\ backend[<<zm[1], zm[2], i>>] \in {"ok", "long"}
                      /\ entry.ok
                      /\ entry.pages = n
                      /\ entry.text = Strip(Join(<<NL, NL>>, answers))
                      /\ Len(entry.text) >= MIN_TEXT_LEN

\* the entry of a document of several pages, one of them with a short text,
\* was written, while another document whose only page gave a short text
\* has all its texts and no entry
C33_Witness ==
    /\ variant = "devnull"
    /\ \E zm \in Members :
          /\ <<YearOf(zm), NameOf(zm)>> \in written
          /\ Member(zm[1], zm[2]).pages >= 2
          /\ \E i \in 0..(Member(zm[1], zm[2]).pages - 1) : backend[<<zm[1], zm[2], i>>] = "ok"
    /\ \E zm \in Members :
          /\ NameOf(zm) \in DOMAIN results
          /\ ~results[NameOf(zm)].final
          /\ Cardinality(DOMAIN results[NameOf(zm)].texts) = results[NameOf(zm)].pages
          /\ ~CacheExists(YearOf(zm), NameOf(zm))

\* C34: while process_zip of main.py runs, at most MAX_WORKERS backend
\* requests are under way at any time, MAX_WORKERS being the number of
\* configured endpoints, however many page tasks are queued.
C34_AtMostMaxWorkersInFlight ==
    variant = "main" =>
        /\ MAX_WORKERS = Len(OLLAMA_URLS)
        /\ Cardinality({k \in 1..Len(page_tasks) : page_tasks[k].st = "running"}) <= MAX_WORKERS

\* MAX_WORKERS requests are under way while a further task is queued
C34_Witness ==
    /\ variant = "main"
    /\ ppc = "pool"
    /\ Cardinality({k \in 1..Len(page_tasks) : page_tasks[k].st = "running"}) = MAX_WORKERS
    /\ \E k \in 1..Len(page_tasks) : page_tasks[k].st = "queued"
    /\ Len(page_tasks) > MAX_WORKERS

\* C35: in every state of the PageBuffer (seen when no thread is inside put
\* or get), pages is the sum of the page counts of the queued items; pages
\* is 0 exactly when no queued item carries a page, and no producer waits in
\* put while the queue is empty.
C35_PagesIsSumOfQueued ==
    variant = "buffer" =>
        LET sum[i \in 0..Len(buffer)] == IF i = 0 THEN 0 ELSE sum[i - 1] + buffer[i].images
        IN  /\ pages = sum[Len(buffer)]
            /\ pages = 0 <=> \A i \in 1..Len(buffer) : buffer[i].images = 0
            /\ \A t \in Producers : pc[t] = "wait" => buffer # <<>>

\* items of different sizes are queued after a get took one, and a producer
\* waits on the full buffer
C35_Witness ==
    /\ variant = "buffer"
    /\ Len(buffer) >= 2
    /\ buffer[1].images # buffer[2].images
    /\ Len(getLog) >= 1
    /\ \E t \in Producers : pc[t] = "wait"

\* C36: with every item put carrying at most B = BATCH_SIZE pages, pages
\* never exceeds max_pages - 1 + B, under any interleaving of the producers
\* and consumers.
C36_OvershootBelowOneBatch ==
    variant = "buffer" =>
        /\ \A i \in 1..Len(putLog) : putLog[i].images <= BATCH_SIZE
        /\ pages <= max_pages - 1 + BATCH_SIZE

\* the bound is reached: a put of a full batch went through one page below
\* the capacity
C36_Witness ==
    /\ variant = "buffer"
    /\ pages = max_pages - 1 + BATCH_SIZE
    /\ Len(getLog) >= 1
    /\ \E t \in Producers : pc[t] = "wait"

\* C37: from the empty ledger, after any sequence of add_manifest calls
\* (batch.py) and commits of process_zip (main.py), loads and saves, every
\* archive entry of the ledger in memory and of every manifest.json has a
\* files list without duplicate names and count equal to the length of files.
C37_LedgerEntriesWellFormed ==
    variant \in {"main", "batch"} =>
        \A mf \in {manifest} \cup {manifestFile[y].zips : y \in Years} :
            \A k \in DOMAIN mf :
                /\ mf[k].count = Len(mf[k].files)
                /\ \A i, j \in 1..Len(mf[k].files) : mf[k].files[i] = mf[k].files[j] => i = j

\* process_zip of main.py committed a document name a second time for the
\* archive that lists it, and the ledger of a second process, loaded from
\* manifest.json, lists two documents under one archive
C37_Witness ==
    \/ /\ variant = "main"
       /\ \E n \in DOMAIN cacheWrites :
             cacheWrites[n] >= 2 /\ in_manifest(manifest, CurZip.key, n)
    \/ /\ variant = "batch"
       /\ run > 1
       /\ ppc = "save"
       /\ startLedger # {}
       /\ \E k \in DOMAIN manifest : manifest[k].count = 2

\* C38: in main.py and parallel.py a document is skipped as already
\* finished only if its own cache entry (year, name) exists or its name is
\* recorded for its own archive in the ledger; a step of the scan that passes
\* over a member because of the skip checks finds one of the two.
C38_SkipsOnlyItsOwnDocument ==
    [][ ( /\ variant \in {"main", "parallel"}
          /\ ppc = "scan"
          /\ zi <= Len(zips)
          /\ mi <= Len(CurZip.members)
          /\ mi' = mi + 1
          /\ run' = run
          /\ Skips(CurYear, CurZip.members[mi].name) )
        => \/ CacheExists(CurYear, CurZip.members[mi].name)
           \/ in_manifest(manifest, CurZip.key, CurZip.members[mi].name)
           \/ in_manifest(manifestFile[CurYear].zips, CurZip.key, CurZip.members[mi].name) ]_vars

\* C39: in ocr.py, with several ocr_consumer threads finishing the last
\* batches of one document in any interleaving, exactly one consumer observes
\* the completion condition and writes the document's cache entry, and only
\* when the results of all batches of the document have been stored: the
\* entry of a document was written once if every page of it was stored and
\* not at all otherwise.
C39_OneConsumerCompletes ==
    variant = "ocr" =>
        \A zm \in Members :
            Count(cacheWrites, NameOf(zm)) =
                IF \A i \in 0..(Member(zm[1], zm[2]).pages - 1) : InSeq(<<NameOf(zm), i>>, arrivals)
                THEN 1 ELSE 0

\* the entry of a document of two batches is written, and its last batch
\* was stored by one consumer before the other one stored its first batch
C39_Witness ==
    /\ variant = "ocr"
    /\ \E zm \in Members :
          /\ Member(zm[1], zm[2]).pages > BATCH_SIZE
          /\ Count(cacheWrites, NameOf(zm)) = 1
          /\ arrivals # <<>>
          /\ arrivals[1] = <<NameOf(zm), BATCH_SIZE>>

\* C40: process_zip of ocr.py and of dev-null/ocr.py eventually returns
\* for every archive when every backend call returns and the threads are
\* scheduled fairly, also when the rasterization of a document fails in
\* pdf_producer and when all OCR calls of a document fail: a process_zip
\* that has started its threads eventually leaves producer.join() and the
\* loop that waits for the results (or the process is killed).
C40_ProcessZipReturns ==
    (variant \in {"ocr", "devnull"} /\ ppc \in {"join", "wait"}) ~> (ppc \notin {"join", "wait"})

====
